---- MODULE Spec2Model ----
(***************************************************************************)
(* Model of the synthetic relational data generator: the dependency-ordered *)
(* multi-table generation coordinator (db_generator.py and                  *)
(* intelligent_db_generator.py) and the response reconstruction and repair  *)
(* pipeline (data_generator.py, langchain_ollama.py, selenium_llm_parser.py)*)
(***************************************************************************)
EXTENDS Integers, Sequences, FiniteSets, TLC

VARIABLES
    impl,                \* which generator runs: "intelligent" or "manual"
    tables,              \* db_schema["tables"]: sequence of table records
    pc,                  \* position of the running operation
    in_degree,           \* Kahn: table name -> number of unmet FK fields
    parents_to_children, \* Kahn: table name -> set of child names
    queue,               \* Kahn: list of ready table names
    order_names,         \* Kahn: names appended so far
    ordered_tables,      \* result of _topo_sort_tables (names, in order)
    sort_raised,         \* "" or the table named by the raised exception
    warnings,            \* diagnostics printed so far (sequence of records)
    primary_keys,        \* intelligent generator: table name -> PK field name
    idx,                 \* position in ordered_tables of the table in progress
    rows,                \* rows of the table in progress
    generated_tables,    \* table name -> stored rows
    db_result,           \* the result document under construction
    error,               \* the exception generate_database raised, if any
    text,                \* the text a text function is applied to
    applied,             \* the text function applied to it, "" before
    result,              \* what the function returned
    variant,             \* which copy of the response pipeline runs
    records_asked,       \* generate_data: its argument num_records
    response,            \* the raw text the collaborator returned
    source_text,         \* the reassembled text the array is looked for in
    json_str,            \* the candidate document on its way to the parser
    passes,              \* the pipeline steps taken so far, in order
    parse_error,         \* the JSONDecodeError the first parse raised, if any
    outcome,             \* what the caller receives
    http_response,       \* OllamaLLM.invoke: resp, what the HTTP request came to
    text_parts,          \* OllamaLLM.invoke: the text chunks collected
    llm_error            \* the exception OllamaLLM.invoke raised, "" for none

topoVars == <<in_degree, parents_to_children, queue, order_names,
              ordered_tables, sort_raised>>

genVars == <<primary_keys, idx, rows, generated_tables, db_result, error>>

dbVars == <<impl, tables, topoVars, warnings, genVars>>

fnVars == <<text, applied, result>>

pipeVars == <<variant, records_asked, response, source_text, json_str, passes,
              parse_error, outcome>>

llmVars == <<http_response, text_parts, llm_error>>

\* what the generation steps leave alone
notDb == <<fnVars, pipeVars, llmVars>>

\* what the sequencing steps leave alone
notTopo == <<genVars, fnVars, pipeVars, llmVars>>

\* what the text functions leave alone
notFn == <<dbVars, pipeVars, llmVars>>

\* what the response pipeline leaves alone
notPipe == <<dbVars, fnVars, llmVars>>

vars == <<pc, dbVars, fnVars, pipeVars, llmVars>>

(***************************************************************************)
(* Bounds of the model                                                      *)
(***************************************************************************)
MaxTables == 3
MaxFks == 3

(***************************************************************************)
(* Generic helpers                                                          *)
(***************************************************************************)
Range(s) == {s[i] : i \in DOMAIN s}

SeqsUpTo(S, n) == UNION {[1..k -> S] : k \in 0..n}

IsInjective(s) == \A i, j \in DOMAIN s : s[i] = s[j] => i = j

\* index of the first occurrence of x in s, 0 when absent
IndexOf(s, x) ==
    IF x \in Range(s) THEN CHOOSE i \in DOMAIN s : s[i] = x /\ \A j \in 1..(i-1) : s[j] # x
    ELSE 0

\* all orders in which a finite set can be iterated
Orderings(S) == {s \in [1..Cardinality(S) -> S] : IsInjective(s)}

(***************************************************************************)
(* Schema documents                                                         *)
(***************************************************************************)
TableNames == {"a", "b", "c"}

\* a table name that no table of the schema carries
AbsentTable == "x"

\* lexical rank of a name, as Python's sorted() orders str
NameRank == [n \in TableNames \cup {"d", AbsentTable} |->
              CASE n = "a" -> 1 [] n = "b" -> 2 [] n = "c" -> 3
                [] n = "d" -> 4 [] OTHER -> 5]

\* field.get("references") is None
NoRef == [table |-> "", field |-> ""]

SchemaNames(ts) == {ts[i].table_name : i \in DOMAIN ts}

\* name_to_table.get(name): the last table carrying the name
TableOf(ts, name) ==
    ts[CHOOSE i \in DOMAIN ts : ts[i].table_name = name /\
                                \A j \in DOMAIN ts : ts[j].table_name = name => j <= i]

\* the fields f of a table with f.get("references") truthy, in field order
FkFields(t) == SelectSeq(t.fields, LAMBDA f : f.references # NoRef)

(***************************************************************************)
(* Sequencing, intelligent_db_generator.py: Kahn's algorithm                *)
(***************************************************************************)
\* dict key order of name_to_table: names by first occurrence in the input
RECURSIVE DictOrder(_)
DictOrder(ts) ==
    IF ts = <<>> THEN <<>>
    ELSE LET rest == DictOrder(SubSeq(ts, 1, Len(ts) - 1))
             n == ts[Len(ts)].table_name
         IN IF n \in Range(rest) THEN rest ELSE Append(rest, n)

\* a test that takes a table's reference to itself for an edge
IsEdgeOrSelf(ts, child, f) ==
    /\ f.references # NoRef
    /\ f.references.table # ""
    /\ f.references.table \in SchemaNames(ts)

\* the test of line 792: the reference names another table of the schema
IsEdge(ts, child, f) ==
    /\ f.references # NoRef
    /\ f.references.table # ""
    /\ f.references.table \in SchemaNames(ts)
    /\ f.references.table # child

\* in_degree after the build loop: one increment per referencing field
RECURSIVE CountEdges(_, _, _)
CountEdges(ts, child, fs) ==
    IF fs = <<>> THEN 0
    ELSE (IF IsEdge(ts, child, Head(fs)) THEN 1 ELSE 0) + CountEdges(ts, child, Tail(fs))

RECURSIVE BuildInDegree(_, _, _)
BuildInDegree(ts, i, name) ==
    IF i > Len(ts) THEN 0
    ELSE (IF ts[i].table_name = name THEN CountEdges(ts, name, ts[i].fields) ELSE 0)
         + BuildInDegree(ts, i + 1, name)

\* parents_to_children after the build loop: a set per parent
BuildChildren(ts, parent) ==
    {ts[i].table_name : i \in {j \in DOMAIN ts :
        \E k \in DOMAIN ts[j].fields :
            /\ IsEdge(ts, ts[j].table_name, ts[j].fields[k])
            /\ ts[j].fields[k].references.table = parent}}

\* the inner loop of lines 803-806 over the children in iteration order cs
RECURSIVE Decrement(_, _, _)
Decrement(deg, q, cs) ==
    IF cs = <<>> THEN [deg |-> deg, q |-> q]
    ELSE LET c == Head(cs)
             d == [deg EXCEPT ![c] = deg[c] - 1]
         IN Decrement(d, IF d[c] = 0 THEN Append(q, c) ELSE q, Tail(cs))

\* sorted(names): ascending by lexical rank
RECURSIVE SortedNames(_)
SortedNames(S) ==
    IF S = {} THEN <<>>
    ELSE LET m == CHOOSE x \in S : \A y \in S : NameRank[x] <= NameRank[y]
         IN <<m>> \o SortedNames(S \ {m})

\* lines 816-818: append the remaining names not yet in the order
RECURSIVE AppendMissing(_, _)
AppendMissing(order, names) ==
    IF names = <<>> THEN order
    ELSE AppendMissing(IF Head(names) \in Range(order) THEN order
                       ELSE Append(order, Head(names)), Tail(names))

\* line 809: names whose in-degree is still positive, in dict order
Remaining(ts, deg) == SelectSeq(DictOrder(ts), LAMBDA n : deg[n] > 0)

CycleWarning(names) == [kind |-> "circular dependency", names |-> names]

KahnBuild ==
    /\ pc = "Sequencing"
    /\ impl = "intelligent"
    /\ in_degree' = [n \in SchemaNames(tables) |-> BuildInDegree(tables, 1, n)]
    /\ parents_to_children' = [n \in SchemaNames(tables) |-> BuildChildren(tables, n)]
    /\ queue' = SelectSeq(DictOrder(tables), LAMBDA n : BuildInDegree(tables, 1, n) = 0)
    /\ order_names' = <<>>
    /\ pc' = "Kahn"
    /\ UNCHANGED <<impl, tables, ordered_tables, sort_raised, warnings, notTopo>>

KahnPop ==
    /\ pc = "Kahn"
    /\ queue # <<>>
    /\ LET node == Head(queue)
       IN \E cs \in Orderings(parents_to_children[node]) :
            LET r == Decrement(in_degree, Tail(queue), cs)
            IN /\ in_degree' = r.deg
               /\ queue' = r.q
               /\ order_names' = Append(order_names, node)
    /\ UNCHANGED <<impl, tables, pc, parents_to_children, ordered_tables,
                   sort_raised, warnings, notTopo>>

KahnFinish ==
    /\ pc = "Kahn"
    /\ queue = <<>>
    /\ LET remaining == Remaining(tables, in_degree)
       IN /\ warnings' = IF remaining # <<>>
                         THEN Append(warnings, CycleWarning(remaining))
                         ELSE warnings
          /\ ordered_tables' = AppendMissing(order_names, SortedNames(Range(remaining)))
    /\ pc' = "Sorted"
    /\ UNCHANGED <<impl, tables, in_degree, parents_to_children, queue,
                   order_names, sort_raised, notTopo>>

(***************************************************************************)
(* Sequencing, db_generator.py: depth-first visit                           *)
(***************************************************************************)
\* the parents visit() recurses into, in field order (lines 43-48)
ParentsToVisit(t) ==
    LET fks == SelectSeq(t.fields, LAMBDA f :
                   /\ f.references # NoRef
                   /\ f.references.table # ""
                   /\ f.references.table # t.table_name)
    IN [i \in DOMAIN fks |-> fks[i].references.table]

RECURSIVE Visit(_, _, _)
RECURSIVE VisitAll(_, _, _)
\* visit(tname); st = [visited, order, raised]
Visit(ts, st, tname) ==
    IF st.raised # "" THEN st
    ELSE IF st.visited[tname] = 1 THEN st
    ELSE IF st.visited[tname] = -1 THEN [st EXCEPT !.raised = tname]
    ELSE IF tname \notin SchemaNames(ts) THEN [st EXCEPT !.visited[tname] = 1]
    ELSE LET t == TableOf(ts, tname)
             s1 == VisitAll(ts, [st EXCEPT !.visited[tname] = -1], ParentsToVisit(t))
         IN IF s1.raised # "" THEN s1
            ELSE [s1 EXCEPT !.visited[tname] = 1, !.order = Append(s1.order, tname)]

VisitAll(ts, st, names) ==
    IF names = <<>> \/ st.raised # "" THEN st
    ELSE VisitAll(ts, Visit(ts, st, Head(names)), Tail(names))

\* every name visit() can be called with: the tables and their FK targets
RefTargetsOf(ts) ==
    UNION {Range(ParentsToVisit(ts[i])) : i \in DOMAIN ts}

\* lines 54-56: visit every table not yet processed, in input order
DfsTopoSort(ts) ==
    VisitAll(ts,
             [visited |-> [n \in SchemaNames(ts) \cup RefTargetsOf(ts) |-> 0],
              order |-> <<>>, raised |-> ""],
             [i \in DOMAIN ts |-> ts[i].table_name])

DfsSort ==
    /\ pc = "Sequencing"
    /\ impl = "manual"
    /\ LET r == DfsTopoSort(tables)
       IN /\ sort_raised' = r.raised
          /\ ordered_tables' = IF r.raised = "" THEN r.order ELSE <<>>
          /\ pc' = IF r.raised = "" THEN "Sorted" ELSE "Failed"
          /\ error' = IF r.raised = "" THEN error
                      ELSE [kind |-> "Failed to sort tables", table |-> r.raised]
    /\ UNCHANGED <<impl, tables, in_degree, parents_to_children, queue,
                   order_names, warnings, primary_keys, idx, rows,
                   generated_tables, db_result, notDb>>

(***************************************************************************)
(* Specification of the sequencing step alone                               *)
(***************************************************************************)
RefTargets == TableNames \cup {AbsentTable}

FkFieldNames == <<"f1", "f2", "f3", "f4", "f5", "f6">>

\* a table whose fields are FK fields pointing at the given targets
TableWithRefs(name, targets) ==
    [table_name |-> name, num_records |-> 0, correct_num_records |-> 0,
     wrong_num_records |-> 0,
     fields |-> [k \in DOMAIN targets |->
                    [name |-> FkFieldNames[k], type |-> "integer",
                     references |-> [table |-> targets[k], field |-> "id"]]]]

RECURSIVE SumTo(_, _)
SumTo(f, n) == IF n = 0 THEN 0 ELSE f[n] + SumTo(f, n - 1)

\* lists of 1..MaxTables tables with unique names
NameLists == {ns \in UNION {[1..k -> TableNames] : k \in 1..MaxTables} : IsInjective(ns)}

\* how many FK fields each table has: at most MaxFks over the whole schema
FkSplits(k) == {l \in [1..k -> 0..MaxFks] : SumTo(l, k) <= MaxFks}

\* the schema with names ns whose i-th table has lens[i] FK fields, their
\* targets read off the list flat
SchemaOf(ns, lens, flat) ==
    [i \in DOMAIN ns |->
        TableWithRefs(ns[i],
                      [k \in 1..lens[i] |-> flat[SumTo(lens, i - 1) + k]])]

\* no JSONDecodeError caught
NoParseError == [raised |-> FALSE, pos |-> 0]

\* nothing returned or raised yet
NoOutcome ==
    [kind |-> "", data |-> <<>>, has_pos |-> FALSE, pos |-> 0,
     has_window |-> FALSE, window |-> <<>>, raw_snippet |-> <<>>]

\* no request was made
NoResponse == [connected |-> FALSE, status_code |-> 0, text_ok |-> FALSE,
               text |-> <<>>, iter_lines |-> <<>>]

LlmIdle ==
    /\ http_response = NoResponse
    /\ text_parts = <<>>
    /\ llm_error = ""

PipeIdle ==
    /\ LlmIdle
    /\ variant = ""
    /\ records_asked = 0
    /\ response = <<>>
    /\ source_text = <<>>
    /\ json_str = <<>>
    /\ passes = <<>>
    /\ parse_error = NoParseError
    /\ outcome = NoOutcome

FnIdle ==
    /\ text = <<>>
    /\ applied = ""
    /\ result = <<>>
    /\ PipeIdle

NoError == [kind |-> "", table |-> ""]

\* no table is in progress and nothing is stored
GenIdle ==
    /\ primary_keys = <<>>
    /\ idx = 0
    /\ rows = <<>>
    /\ generated_tables = <<>>
    /\ db_result = <<>>
    /\ error = NoError

TopoIdle ==
    /\ in_degree = <<>>
    /\ parents_to_children = <<>>
    /\ queue = <<>>
    /\ order_names = <<>>
    /\ ordered_tables = <<>>
    /\ sort_raised = ""

\* two tables c and d that reference each other, and two tables chained
\* downstream of c: tail references head, head references c
TailSchemas ==
    {<<TableWithRefs(tail, <<head>>), TableWithRefs(head, <<"c">>),
       TableWithRefs("c", <<"d">>), TableWithRefs("d", <<"c">>)>> :
        tail \in {"a", "b"}, head \in {"a", "b"}} \ 
    {<<TableWithRefs(n, <<n>>), TableWithRefs(n, <<"c">>),
       TableWithRefs("c", <<"d">>), TableWithRefs("d", <<"c">>)>> : n \in {"a", "b"}}

InitTopo ==
    /\ impl \in {"intelligent", "manual"}
    /\ \/ \E ns \in NameLists :
            \E lens \in FkSplits(Len(ns)) :
              \E flat \in [1..SumTo(lens, Len(ns)) -> RefTargets] :
                tables = SchemaOf(ns, lens, flat)
       \/ tables \in TailSchemas
    /\ pc = "Sequencing"
    /\ TopoIdle
    /\ GenIdle
    /\ warnings = <<>>
    /\ FnIdle

NextTopo == KahnBuild \/ KahnPop \/ KahnFinish \/ DfsSort

SpecTopo == InitTopo /\ [][NextTopo]_vars

(***************************************************************************)
(* Claims about sequencing                                                  *)
(***************************************************************************)
\* the foreign-key graph of a schema: <<child, parent>> for every field whose
\* references.table is another table of the schema
FkEdges(ts) ==
    {e \in SchemaNames(ts) \X SchemaNames(ts) :
        /\ e[1] # e[2]
        /\ \E i \in DOMAIN ts : /\ ts[i].table_name = e[1]
                                /\ \E k \in DOMAIN ts[i].fields :
                                      ts[i].fields[k].references.table = e[2]}

RECURSIVE ReachFrom(_, _, _)
ReachFrom(E, S, n) ==
    IF n = 0 THEN S
    ELSE ReachFrom(E, S \cup {e[2] : e \in {d \in E : d[1] \in S}}, n - 1)

\* the tables from which following references leads back to the table itself
OnCycle(ts) ==
    {n \in SchemaNames(ts) :
        n \in ReachFrom(FkEdges(ts), {e[2] : e \in {d \in FkEdges(ts) : d[1] = n}},
                        Len(ts))}

Acyclic(ts) == OnCycle(ts) = {}

CycleDiagnosed == \E i \in DOMAIN warnings : warnings[i].kind = "circular dependency"

\* C1: for every schema whose foreign-key graph is acyclic, the returned
\* order places every parent table strictly before every table referencing it
C1_ParentBeforeChild ==
    (pc = "Sorted" /\ Acyclic(tables)) =>
        \A e \in FkEdges(tables) :
            /\ IndexOf(ordered_tables, e[2]) > 0
            /\ IndexOf(ordered_tables, e[2]) < IndexOf(ordered_tables, e[1])

\* C2: for every list of tables with unique names, cyclic or not, sequencing
\* does not fail, the returned sequence holds every input table exactly once,
\* and a cycle diagnostic is emitted when the graph contains a cycle
C2_SequencingNeverFails ==
    /\ pc # "Failed"
    /\ pc = "Sorted" =>
        /\ Len(ordered_tables) = Len(tables)
        /\ Range(ordered_tables) = SchemaNames(tables)
        /\ ~Acyclic(tables) => CycleDiagnosed

\* the schema without the references of a table to itself
StripSelfRefs(ts) ==
    [i \in DOMAIN ts |->
        [ts[i] EXCEPT !.fields =
            [k \in DOMAIN ts[i].fields |->
                IF ts[i].fields[k].references.table = ts[i].table_name
                THEN [ts[i].fields[k] EXCEPT !.references = NoRef]
                ELSE ts[i].fields[k]]]]

\* the tables that reference only themselves
SelfOnly(ts) ==
    {ts[i].table_name : i \in {j \in DOMAIN ts :
        /\ FkFields(ts[j]) # <<>>
        /\ \A k \in DOMAIN FkFields(ts[j]) :
              FkFields(ts[j])[k].references.table = ts[j].table_name}}

\* the names a cycle warning lists
WarnedNames ==
    UNION {Range(warnings[i].names) :
              i \in {j \in DOMAIN warnings : warnings[j].kind = "circular dependency"}}

\* C15: a field referencing its own table creates no dependency edge: the
\* graph built is the graph of the schema without self-references, a table
\* whose only reference is to itself has in-degree 0 and is never reported
\* as part of a cycle, and the depth-first sorter returns what it returns
\* for the schema without self-references
C15_SelfReferenceNoEdge ==
    /\ (impl = "intelligent" /\ pc = "Kahn" /\ order_names = <<>>) =>
          /\ \A n \in SelfOnly(tables) : in_degree[n] = 0
          /\ in_degree = [n \in SchemaNames(tables) |->
                             BuildInDegree(StripSelfRefs(tables), 1, n)]
          /\ parents_to_children = [n \in SchemaNames(tables) |->
                                       BuildChildren(StripSelfRefs(tables), n)]
    /\ (impl = "intelligent" /\ pc = "Sorted") => SelfOnly(tables) \cap WarnedNames = {}
    /\ (impl = "manual" /\ pc \in {"Sorted", "Failed"}) =>
          /\ sort_raised \notin SelfOnly(tables)
          /\ sort_raised = DfsTopoSort(StripSelfRefs(tables)).raised
          /\ sort_raised = "" => ordered_tables = DfsTopoSort(StripSelfRefs(tables)).order

\* a table referencing only itself, twice, was given in-degree 0 and sorted
C15_Witness ==
    /\ pc = "Sorted"
    /\ impl = "intelligent"
    /\ \E i \in DOMAIN tables :
          /\ tables[i].table_name \in SelfOnly(tables)
          /\ Len(tables[i].fields) = 2
          /\ in_degree[tables[i].table_name] = 0
    /\ Len(tables) = 2
    /\ Len(ordered_tables) = 2

\* C28: the Kahn sequencer reports a circular dependency only when the
\* foreign-key graph has a cycle: for an acyclic schema every in-degree
\* reaches zero, no table remains and no cycle diagnostic is emitted
C28_NoFalseCycle ==
    (impl = "intelligent" /\ pc = "Sorted" /\ Acyclic(tables)) =>
        /\ \A n \in SchemaNames(tables) : in_degree[n] = 0
        /\ Remaining(tables, in_degree) = <<>>
        /\ ~CycleDiagnosed

\* C29: in the order the Kahn sequencer returns for a graph with a cycle,
\* every reference whose child and parent both lie on no cycle has the
\* parent before the child
C29_CycleDisturbsOnlyItself ==
    (impl = "intelligent" /\ pc = "Sorted" /\ ~Acyclic(tables)) =>
        \A e \in FkEdges(tables) :
            (e[1] \notin OnCycle(tables) /\ e[2] \notin OnCycle(tables)) =>
                /\ IndexOf(ordered_tables, e[2]) > 0
                /\ IndexOf(ordered_tables, e[2]) < IndexOf(ordered_tables, e[1])

\* C13: sequencing is deterministic: the tables that become ready at the
\* same time enter the queue in input order, whatever the iteration order of
\* the per-parent set of children
C13_TiesInInputOrder ==
    [][(pc = "Kahn" /\ pc' = "Kahn") =>
          LET added == SubSeq(queue', Len(queue), Len(queue'))
          IN \A i, j \in DOMAIN added :
                i < j => IndexOf(DictOrder(tables), added[i])
                            < IndexOf(DictOrder(tables), added[j])]_vars

(***************************************************************************)
(* Row values. A string value is the text s followed by the decimal n       *)
(* (n = -1: no number follows), so that 'INVALID_FK_A_3' is                 *)
(* StrV("INVALID_FK_A_", 3).                                                *)
(***************************************************************************)
IntV(n) == [kind |-> "int", n |-> n, s |-> ""]

StrV(s, n) == [kind |-> "str", n |-> n, s |-> s]

BoolV(b) == [kind |-> "bool", n |-> IF b THEN 1 ELSE 0, s |-> ""]

\* parent_table_name.upper()
Upper(name) ==
    CASE name = "a" -> "A" [] name = "b" -> "B" [] name = "c" -> "C" [] OTHER -> "X"

\* row[key] = value
SetKey(row, key, value) ==
    [k \in DOMAIN row \cup {key} |-> IF k = key THEN value ELSE row[k]]

\* start_id of _generate_primary_keys
StartId == 1

\* the numeric sentinel of an invalid foreign key
InvalidFkBase == 999999

IntegerTypes == {"integer", "int", "number"}

(***************************************************************************)
(* Key injection (both generators)                                          *)
(***************************************************************************)
\* an assignment that keeps a value the row already holds
GeneratePrimaryKeysIfAbsent(rs, pk_field) ==
    [j \in DOMAIN rs |->
        IF pk_field \in DOMAIN rs[j] THEN rs[j]
        ELSE SetKey(rs[j], pk_field, IntV(StartId + (j - 1)))]

\* _generate_primary_keys(rows, pk_field): row i gets start_id + i
GeneratePrimaryKeys(rs, pk_field) ==
    [j \in DOMAIN rs |-> SetKey(rs[j], pk_field, IntV(StartId + (j - 1)))]

\* generated_tables.get(parent_table_name, [])
ParentRows(generated, parent) ==
    IF parent \in DOMAIN generated THEN generated[parent] ELSE <<>>

\* parent_keys: the referenced field of the parent rows that carry it
ParentKeys(generated, ref) ==
    LET prs == ParentRows(generated, ref.table)
        having == SelectSeq(prs, LAMBDA r : ref.field \in DOMAIN r)
    IN [j \in DOMAIN having |-> having[j][ref.field]]

\* the value written to row i (counted from 0) of the invalid records
InvalidFkValue(fk_field, i) ==
    IF fk_field.type \in IntegerTypes THEN IntV(InvalidFkBase + i)
    ELSE StrV("INVALID_FK_" \o Upper(fk_field.references.table) \o "_", i)

\* the two loops over the rows for one FK field; pick[j] is the index in
\* keys that random.choice draws for row j
InjectField(rs, fk_field, keys, correct_count, pick) ==
    [j \in DOMAIN rs |->
        IF j - 1 < correct_count
        THEN SetKey(rs[j], fk_field.name, keys[pick[j]])
        ELSE SetKey(rs[j], fk_field.name, InvalidFkValue(fk_field, j - 1))]

NoDataWarning(parent) == [kind |-> "parent table has no data", names |-> <<parent>>]

NoKeysWarning(ref) == [kind |-> "no valid keys", names |-> <<ref.table, ref.field>>]

SkipPkWarning(name) == [kind |-> "skipping injection for FK", names |-> <<name>>]

\* the guard of intelligent_db_generator.py, lines 860-863; db_generator.py
\* has no pk_field parameter and no guard
SkipsOwnPk(guarded, pk_field, fk_field) ==
    guarded /\ pk_field # "" /\ fk_field.name = pk_field

RECURSIVE InjectOutcomes(_, _, _, _, _, _, _)
\* _inject_foreign_keys over fk_fields from position k on: every outcome
\* [rows, warnings] the random choices allow
InjectOutcomes(rs, warns, fks, k, generated, correct_count, guard) ==
    IF k > Len(fks) THEN {[rows |-> rs, warnings |-> warns]}
    ELSE LET fk == fks[k]
             ref == fk.references
             keys == ParentKeys(generated, ref)
         IN IF ParentRows(generated, ref.table) = <<>>
            THEN InjectOutcomes(rs, Append(warns, NoDataWarning(ref.table)), fks, k + 1,
                                generated, correct_count, guard)
            ELSE IF keys = <<>>
            THEN InjectOutcomes(rs, Append(warns, NoKeysWarning(ref)), fks, k + 1,
                                generated, correct_count, guard)
            ELSE IF SkipsOwnPk(guard.on, guard.pk, fk)
            THEN InjectOutcomes(rs, Append(warns, SkipPkWarning(fk.name)), fks, k + 1,
                                generated, correct_count, guard)
            ELSE UNION {InjectOutcomes(InjectField(rs, fk, keys, correct_count, pick),
                                       warns, fks, k + 1, generated, correct_count, guard)
                        : pick \in [{j \in DOMAIN rs : j - 1 < correct_count}
                                      -> DOMAIN keys]}

(***************************************************************************)
(* generate_database: the per-table loop                                    *)
(***************************************************************************)
FieldNames(fs) == {fs[k].name : k \in DOMAIN fs}

\* db_generator.py _identify_primary_key: "" stands for None
IdentifyPrimaryKey(fs) == IF "id" \in FieldNames(fs) THEN "id" ELSE ""

\* the table in progress
CurrentTable == TableOf(tables, ordered_tables[idx])

\* pk_field of the table in progress
PkField(t) ==
    IF impl = "intelligent"
    THEN (IF t.table_name \in DOMAIN primary_keys THEN primary_keys[t.table_name] ELSE "id")
    ELSE IdentifyPrimaryKey(t.fields)

\* fields_for_llm: the intelligent generator withholds PK and FK fields, the
\* manual one only the PK field
FieldsForLlm(t) ==
    IF impl = "intelligent"
    THEN SelectSeq(t.fields, LAMBDA f : f.name # PkField(t) /\ f.references = NoRef)
    ELSE IF PkField(t) # "" THEN SelectSeq(t.fields, LAMBDA f : f.name # PkField(t))
    ELSE t.fields

\* correct_count and wrong_count of the table in progress
CorrectCount(t) == t.correct_num_records

WrongCount(t) == t.wrong_num_records

\* the value the collaborator writes for a requested field; any integer may
\* come back, and this one equals 999999 + 1
LlmValues == {IntV(InvalidFkBase + 1)}

\* the is_valid flags of a response of n rows: as the prompt requests (the
\* first correct_count rows valid) or every row flagged valid
FlagPatterns(n, correct_count) ==
    {[j \in 1..n |-> BoolV(j <= correct_count)], [j \in 1..n |-> BoolV(TRUE)]}

\* the rows generate_data can return: at most num_records rows, each with
\* the requested fields and the is_valid flag
LlmRows(fs, num_records, correct_count) ==
    UNION {{[j \in 1..n |-> SetKey(data[j], "is_valid", flags[j])] :
                data \in [1..n -> [FieldNames(fs) -> LlmValues]],
                flags \in FlagPatterns(n, correct_count)}
           : n \in 0..num_records}

\* the report before validate_database ran
NoValidation == [overall_valid |-> TRUE, errors |-> <<>>, ran |-> FALSE]

EmptyDocument == [tables |-> <<>>, counts |-> <<>>, generation_order |-> <<>>,
                  total_records |-> -1, total_tables |-> -1,
                  validation |-> NoValidation]

\* d[key] = value on a dict held as a function
Put(d, key, value) == [k \in DOMAIN d \cup {key} |-> IF k = key THEN value ELSE d[k]]

\* lines 520-523 (134-137): an empty schema raises before anything starts
StartRun ==
    /\ pc = "Pending"
    /\ IF tables = <<>>
       THEN /\ pc' = "Failed"
            /\ error' = [kind |-> "No tables provided in db_schema", table |-> ""]
       ELSE /\ pc' = "Sequencing"
            /\ UNCHANGED error
    /\ UNCHANGED <<impl, tables, topoVars, warnings, primary_keys, idx, rows,
                   generated_tables, db_result, notDb>>

\* lines 654-662 (153-160): the empty result document and dataset map
BeginGeneration ==
    /\ pc = "Sorted"
    /\ db_result' = EmptyDocument
    /\ generated_tables' = <<>>
    /\ idx' = 1
    /\ pc' = "PerTable"
    /\ UNCHANGED <<impl, tables, topoVars, warnings, primary_keys, rows, error, notDb>>

\* db_generator.py lines 174-176: a table without fields is skipped
SkipEmptyTable ==
    /\ pc = "PerTable"
    /\ idx <= Len(ordered_tables)
    /\ impl = "manual"
    /\ CurrentTable.fields = <<>>
    /\ warnings' = Append(warnings, [kind |-> "no fields defined",
                                     names |-> <<CurrentTable.table_name>>])
    /\ idx' = idx + 1
    /\ UNCHANGED <<pc, impl, tables, topoVars, primary_keys, rows, generated_tables,
                   db_result, error, notDb>>

\* generate_data returns: rows = gen_result["data"]
Synthesize ==
    /\ pc = "PerTable"
    /\ idx <= Len(ordered_tables)
    /\ impl = "manual" => CurrentTable.fields # <<>>
    /\ rows' \in LlmRows(FieldsForLlm(CurrentTable), CurrentTable.num_records,
                        CorrectCount(CurrentTable))
    /\ pc' = "Synthesized"
    /\ UNCHANGED <<impl, tables, topoVars, warnings, primary_keys, idx,
                   generated_tables, db_result, error, notDb>>

\* generate_data raises (collaborator error or unrecoverable parse failure)
SynthesizeFails ==
    /\ pc = "PerTable"
    /\ idx <= Len(ordered_tables)
    /\ impl = "manual" => CurrentTable.fields # <<>>
    /\ error' = IF impl = "manual"
                THEN [kind |-> "Failed to generate", table |-> CurrentTable.table_name]
                ELSE [kind |-> "Error generating data", table |-> ""]
    /\ pc' = "Failed"
    /\ UNCHANGED <<impl, tables, topoVars, warnings, primary_keys, idx, rows,
                   generated_tables, db_result, notDb>>

\* lines 712-714 (201-203)
AssignPrimaryKeys ==
    /\ pc = "Synthesized"
    /\ rows' = IF PkField(CurrentTable) # ""
               THEN GeneratePrimaryKeys(rows, PkField(CurrentTable))
               ELSE rows
    /\ pc' = "KeysAssigned"
    /\ UNCHANGED <<impl, tables, topoVars, warnings, primary_keys, idx,
                   generated_tables, db_result, error, notDb>>

\* lines 717-720 (206-209)
InjectForeignKeys ==
    /\ pc = "KeysAssigned"
    /\ IF FkFields(CurrentTable) # <<>>
       THEN \E o \in InjectOutcomes(rows, warnings, FkFields(CurrentTable), 1,
                                    generated_tables, CorrectCount(CurrentTable),
                                    [on |-> impl = "intelligent",
                                     pk |-> PkField(CurrentTable)]) :
                /\ rows' = o.rows
                /\ warnings' = o.warnings
       ELSE UNCHANGED <<rows, warnings>>
    /\ pc' = "KeysInjected"
    /\ UNCHANGED <<impl, tables, topoVars, primary_keys, idx, generated_tables,
                   db_result, error, notDb>>

\* lines 727-734 (212-219)
Store ==
    /\ pc = "KeysInjected"
    /\ LET name == CurrentTable.table_name
       IN /\ generated_tables' = Put(generated_tables, name, rows)
          /\ db_result' =
               [db_result EXCEPT
                  !.tables = Put(@, name, rows),
                  !.counts = Put(@, name, [total |-> Len(rows),
                                           valid |-> CorrectCount(CurrentTable),
                                           invalid |-> WrongCount(CurrentTable)]),
                  !.generation_order = Append(@, name)]
    /\ idx' = idx + 1
    /\ pc' = "PerTable"
    /\ UNCHANGED <<impl, tables, topoVars, warnings, primary_keys, rows, error, notDb>>

RECURSIVE TotalRecords(_, _)
\* sum(len(rows) for rows in generated_tables.values())
TotalRecords(generated, names) ==
    IF names = {} THEN 0
    ELSE LET n == CHOOSE x \in names : TRUE
         IN Len(generated[n]) + TotalRecords(generated, names \ {n})

\* _validate_table: the rows whose primary key value was seen in an earlier
\* row (foreign_keys is always [] in the analyses generate_database builds)
DuplicatePkErrors(name, rs, pk) ==
    LET dup == SelectSeq([j \in DOMAIN rs |-> j], LAMBDA j :
                   /\ pk # ""
                   /\ pk \in DOMAIN rs[j]
                   /\ \E i \in 1..(j - 1) : pk \in DOMAIN rs[i] /\ rs[i][pk] = rs[j][pk])
    IN [k \in DOMAIN dup |->
           [kind |-> "Duplicate primary key", table |-> name, row |-> dup[k] - 1]]

RECURSIVE ValidateDatabase(_, _, _)
\* validate_database: the errors of every stored table, in dict order
ValidateDatabase(generated, order, pks) ==
    IF order = <<>> THEN <<>>
    ELSE LET name == Head(order)
             pk == IF name \in DOMAIN pks THEN pks[name] ELSE ""
         IN DuplicatePkErrors(name, generated[name], pk)
            \o ValidateDatabase(generated, Tail(order), pks)

\* intelligent_db_generator.py lines 742-753
Validate ==
    /\ pc = "PerTable"
    /\ idx > Len(ordered_tables)
    /\ impl = "intelligent"
    /\ LET errs == ValidateDatabase(generated_tables, db_result.generation_order,
                                    primary_keys)
       IN db_result' = [db_result EXCEPT
                          !.validation = [overall_valid |-> errs = <<>>,
                                          errors |-> errs, ran |-> TRUE]]
    /\ pc' = "Validated"
    /\ UNCHANGED <<impl, tables, topoVars, warnings, primary_keys, idx, rows,
                   generated_tables, error, notDb>>

\* lines 755-764 (227-236): totals, and the document is returned
Finish ==
    /\ \/ pc = "Validated"
       \/ pc = "PerTable" /\ idx > Len(ordered_tables) /\ impl = "manual"
    /\ db_result' = [db_result EXCEPT
                       !.total_records = TotalRecords(generated_tables,
                                                      DOMAIN generated_tables),
                       !.total_tables = Cardinality(DOMAIN generated_tables)]
    /\ pc' = "Done"
    /\ UNCHANGED <<impl, tables, topoVars, warnings, primary_keys, idx, rows,
                   generated_tables, error, notDb>>

(***************************************************************************)
(* Specification of whole runs of generate_database over small schemas      *)
(***************************************************************************)
MaxRows == 2

IdField == [name |-> "id", type |-> "integer", references |-> NoRef]

CodeField == [name |-> "code", type |-> "integer", references |-> NoRef]

FkField(name, type, table, field) ==
    [name |-> name, type |-> type, references |-> [table |-> table, field |-> field]]

Table(name, fs, num, correct) ==
    [table_name |-> name, fields |-> fs, num_records |-> num,
     correct_num_records |-> correct, wrong_num_records |-> num - correct]

\* table a: a primary key, an optional plain field, an optional reference to b
ParentTables ==
    {Table("a", <<IdField>> \o code \o ref, MaxRows, correct) :
        code \in {<<>>, <<CodeField>>},
        ref \in {<<>>, <<FkField("ref", "integer", "b", "id")>>},
        correct \in 0..MaxRows}

\* table b: its primary key may itself be a foreign key; an optional
\* reference to a, to itself or to a table that is not in the schema
ChildTables ==
    {Table("b", id \o ref, MaxRows, correct) :
        id \in {<<IdField>>, <<FkField("id", "integer", "a", "id")>>},
        ref \in {<<>>, <<FkField("ref", "string", "a", "id")>>}
                \cup {<<FkField("ref", "integer", t, f)>> :
                         t \in {"a", "b", AbsentTable}, f \in {"id", "code"}},
        correct \in 0..MaxRows}
    \cup {Table("b", <<>>, MaxRows, MaxRows)}

\* three tables in a chain: a references b, b references c through two
\* of its fields
ChainSchema ==
    <<Table("c", <<IdField>>, MaxRows, MaxRows),
      Table("a", <<IdField, FkField("ref", "integer", "b", "id")>>, MaxRows, MaxRows),
      Table("b", <<IdField, FkField("ref", "integer", "c", "id"),
                   FkField("alt", "integer", "c", "id")>>, MaxRows, MaxRows)>>

DbSchemas ==
    {<<>>, ChainSchema}
    \cup {<<p>> : p \in ParentTables} \cup {<<c>> : c \in ChildTables}
    \cup {<<p, c>> : p \in ParentTables, c \in ChildTables}
    \cup {<<c, p>> : p \in ParentTables, c \in ChildTables}

\* phases 1-3 of the intelligent generator give every table a primary key
DetectedPrimaryKeys(ts) == [n \in SchemaNames(ts) |-> "id"]

InitDb ==
    /\ pc = "Pending"
    /\ impl \in {"intelligent", "manual"}
    /\ tables \in DbSchemas
    /\ primary_keys = IF impl = "intelligent" THEN DetectedPrimaryKeys(tables) ELSE <<>>
    /\ idx = 0
    /\ rows = <<>>
    /\ generated_tables = <<>>
    /\ db_result = <<>>
    /\ error = NoError
    /\ TopoIdle
    /\ warnings = <<>>
    /\ FnIdle

NextDb ==
    \/ StartRun
    \/ KahnBuild
    \/ KahnPop
    \/ KahnFinish
    \/ DfsSort
    \/ BeginGeneration
    \/ SkipEmptyTable
    \/ Synthesize
    \/ SynthesizeFails
    \/ AssignPrimaryKeys
    \/ InjectForeignKeys
    \/ Store
    \/ Validate
    \/ Finish

SpecDb == InitDb /\ [][NextDb]_vars

(***************************************************************************)
(* Specification of _generate_primary_keys applied to arbitrary rows        *)
(***************************************************************************)
\* the rows a collaborator can hand over: each may or may not hold the
\* fields id and code already, with equal or different values
KeyRows ==
    SeqsUpTo(UNION {[S -> {IntV(1), IntV(7)}] : S \in SUBSET {"id", "code"}}, MaxRows)

\* self._generate_primary_keys(rows, pk_field)
ApplyGeneratePrimaryKeys ==
    /\ pc = "Rows"
    /\ rows' = GeneratePrimaryKeys(rows, primary_keys["a"])
    /\ pc' = "Keyed"
    /\ UNCHANGED <<impl, tables, topoVars, warnings, primary_keys, idx,
                   generated_tables, db_result, error, notDb>>

\* rows are those of table a, as generate_data returned them (result)
InitKeys ==
    /\ pc = "Rows"
    /\ impl \in {"intelligent", "manual"}
    /\ tables = <<>>
    /\ primary_keys \in {[n \in {"a"} |-> f] : f \in {"id", "code"}}
    /\ rows \in KeyRows
    /\ result = rows
    /\ idx = 0
    /\ generated_tables = <<>>
    /\ db_result = <<>>
    /\ error = NoError
    /\ TopoIdle
    /\ warnings = <<>>
    /\ text = <<>>
    /\ applied = ""
    /\ PipeIdle

NextKeys == ApplyGeneratePrimaryKeys

SpecKeys == InitKeys /\ [][NextKeys]_vars

\* C16: _generate_primary_keys over N rows with the default start value sets
\* row i's primary-key field to 1 + i: the key values are exactly 1..N, no
\* two rows share one, and a value the collaborator supplied is overwritten
C16_KeysAreOneToN ==
    pc = "Keyed" =>
        /\ Len(rows) = Len(result)
        /\ \A j \in DOMAIN rows :
              /\ primary_keys["a"] \in DOMAIN rows[j]
              /\ rows[j][primary_keys["a"]] = IntV(1 + (j - 1))
        /\ {rows[j][primary_keys["a"]] : j \in DOMAIN rows}
              = {IntV(n) : n \in 1..Len(result)}
        /\ \A i, j \in DOMAIN rows :
              rows[i][primary_keys["a"]] = rows[j][primary_keys["a"]] => i = j

\* two rows that came back with the same id 7 now hold 1 and 2
C16_Witness ==
    /\ pc = "Keyed"
    /\ primary_keys["a"] = "id"
    /\ Len(result) = 2
    /\ \A j \in 1..2 : "id" \in DOMAIN result[j] /\ result[j]["id"] = IntV(7)
    /\ rows[1]["id"] = IntV(1)
    /\ rows[2]["id"] = IntV(2)

(***************************************************************************)
(* Claims about key injection                                               *)
(***************************************************************************)
\* the FK fields of the table in progress for which injection takes place:
\* the parent has a row carrying the referenced field and the field is not
\* the one the primary-key guard skips
InjectedFks ==
    SelectSeq(FkFields(CurrentTable), LAMBDA f :
        /\ ParentKeys(generated_tables, f.references) # <<>>
        /\ ~SkipsOwnPk(impl = "intelligent", PkField(CurrentTable), f))

\* the FK fields of the table in progress whose parent has no stored row
\* carrying the referenced field, the table's own primary key apart
OrphanFks ==
    SelectSeq(FkFields(CurrentTable), LAMBDA f :
        /\ ParentKeys(generated_tables, f.references) = <<>>
        /\ f.name # PkField(CurrentTable))

\* C4: after injection for an FK whose parent has a row carrying the
\* referenced field, every row below correct_count holds one of the parent's
\* values and every other row holds the sentinel (999999 + i, or
\* 'INVALID_FK_<PARENT>_<i>'), which is not among the parent's values
C4_InjectedValues ==
    pc = "KeysInjected" =>
        \A k \in DOMAIN InjectedFks :
            LET fk == InjectedFks[k]
                keys == Range(ParentKeys(generated_tables, fk.references))
            IN \A j \in DOMAIN rows :
                 /\ fk.name \in DOMAIN rows[j]
                 /\ IF j - 1 < CorrectCount(CurrentTable)
                    THEN rows[j][fk.name] \in keys
                    ELSE /\ rows[j][fk.name] = InvalidFkValue(fk, j - 1)
                         /\ rows[j][fk.name] \notin keys

\* C9: after primary-key assignment and foreign-key injection for a table
\* with a primary key, row i's primary-key field equals 1 + i, also when an
\* FK field has the name of the primary key
C9_PkNeverOverwritten ==
    (pc = "KeysInjected" /\ PkField(CurrentTable) # "") =>
        \A j \in DOMAIN rows :
            /\ PkField(CurrentTable) \in DOMAIN rows[j]
            /\ rows[j][PkField(CurrentTable)] = IntV(1 + (j - 1))

\* C10: when the parent of an FK has no stored rows (or none carrying the
\* referenced field) at injection time, a warning is emitted, the run goes
\* on, and the FK field is absent from every row instead of holding a
\* fabricated value
C10_OrphanFkLeftUnset ==
    pc = "KeysInjected" =>
        \A k \in DOMAIN OrphanFks :
            /\ \E w \in DOMAIN warnings :
                  /\ warnings[w].kind \in {"parent table has no data", "no valid keys"}
                  /\ warnings[w].names[1] = OrphanFks[k].references.table
            /\ error = NoError
            /\ \A j \in DOMAIN rows : OrphanFks[k].name \notin DOMAIN rows[j]

(***************************************************************************)
(* Claims about whole runs                                                  *)
(***************************************************************************)
\* the tables of the schema that table t references, itself apart
ParentsOf(t) == {e[2] : e \in {d \in FkEdges(tables) : d[1] = t.table_name}}

\* C11: in a run over an acyclic schema, when the generation step of a
\* table begins, every table of the schema it references has completed its
\* own generation and is stored in the dataset map
C11_ParentsStoredFirst ==
    (pc = "PerTable" /\ idx <= Len(ordered_tables) /\ Acyclic(tables)) =>
        \A p \in ParentsOf(CurrentTable) : p \in DOMAIN generated_tables

\* C12: when the generation of a table fails, generate_database returns no
\* result document and the error it raises names the table that was being
\* generated
C12_FailureNamesTable ==
    (pc = "Failed" /\ idx >= 1) =>
        /\ error # NoError
        /\ error.table = CurrentTable.table_name

\* the fields of the table in progress that reference the table itself
SelfFks == SelectSeq(FkFields(CurrentTable), LAMBDA f :
               f.references.table = CurrentTable.table_name)

\* C14: for a field that references its own table the value is injected in
\* the table's own generation pass: after the key-injection step every row
\* holds a value for the field
C14_SelfReferenceInjected ==
    pc = "KeysInjected" =>
        \A k \in DOMAIN SelfFks :
            \A j \in DOMAIN rows : SelfFks[k].name \in DOMAIN rows[j]

\* C17: in a returned document every table's counts satisfy
\* total = valid + invalid with valid, invalid >= 0, where total is the
\* number of rows stored for the table, whatever the collaborator returned
C17_CountsAddUp ==
    pc = "Done" =>
        \A n \in DOMAIN db_result.counts :
            /\ db_result.counts[n].total = Len(db_result.tables[n])
            /\ db_result.counts[n].valid >= 0
            /\ db_result.counts[n].invalid >= 0
            /\ db_result.counts[n].total
                  = db_result.counts[n].valid + db_result.counts[n].invalid

\* the warnings a returned document carries
DocumentWarnings(d) == IF "warnings" \in DOMAIN d THEN d.warnings ELSE <<>>

\* C18: a run that met warnings (a dependency cycle, a foreign key into a
\* parent without rows) is not aborted by them, and the document it returns
\* carries the accumulated warnings
C18_WarningsReturned ==
    /\ (pc = "Failed" /\ warnings # <<>>) => error.kind \notin {w.kind : w \in Range(warnings)}
    /\ pc = "Done" => DocumentWarnings(db_result) = warnings

\* the rows flagged is_valid of stored table n whose value for foreign key
\* f is not among the referenced field's values in the parent's stored rows
DanglingRows(n, f) ==
    {j \in DOMAIN generated_tables[n] :
        LET row == generated_tables[n][j]
        IN /\ "is_valid" \in DOMAIN row
           /\ row["is_valid"] = BoolV(TRUE)
           /\ f.name \in DOMAIN row
           /\ f.references.table \in DOMAIN generated_tables
           /\ row[f.name] \notin Range(ParentKeys(generated_tables, f.references))}

\* C19: the validation phase of the intelligent generator checks referential
\* integrity: when a row flagged is_valid holds a foreign-key value absent
\* from the referenced field of the parent's rows, the report has
\* overall_valid = false and an error for that row
C19_ValidationChecksReferences ==
    (pc = "Done" /\ impl = "intelligent") =>
        \A n \in DOMAIN generated_tables :
            \A k \in DOMAIN FkFields(TableOf(tables, n)) :
                \A j \in DanglingRows(n, FkFields(TableOf(tables, n))[k]) :
                    /\ db_result.validation.overall_valid = FALSE
                    /\ \E e \in Range(db_result.validation.errors) :
                          e.table = n /\ e.row = j - 1

\* C20: a returned document has tables and counts for every table of the
\* schema, generation_order is the sequencer's order, total_tables is the
\* number of input tables and total_records the sum of the stored row counts
C20_EveryTableInDocument ==
    pc = "Done" =>
        /\ DOMAIN db_result.tables = SchemaNames(tables)
        /\ DOMAIN db_result.counts = SchemaNames(tables)
        /\ db_result.generation_order = ordered_tables
        /\ db_result.total_tables = Len(tables)
        /\ db_result.total_records
              = TotalRecords(db_result.tables, DOMAIN db_result.tables)

\* C25: a run goes from Pending to Sequencing, then per table from
\* synthesis to primary-key assignment to foreign-key injection to storing,
\* then through validation exactly once after the last table, then to Done;
\* Failed and Done are terminal
C25_PhaseOrder ==
    [][/\ pc = "Pending" => pc' \in {"Sequencing", "Failed"}
       /\ pc = "Sequencing" => pc' \in {"Kahn", "Sorted", "Failed"}
       /\ pc = "Kahn" => pc' \in {"Kahn", "Sorted"}
       /\ pc = "Sorted" => pc' = "PerTable"
       /\ pc = "PerTable" => pc' \in {"PerTable", "Synthesized", "Validated", "Failed"}
       /\ pc = "Synthesized" => pc' = "KeysAssigned"
       /\ pc = "KeysAssigned" => pc' = "KeysInjected"
       /\ pc = "KeysInjected" =>
             /\ pc' = "PerTable"
             /\ DOMAIN generated_tables'
                   = DOMAIN generated_tables \cup {CurrentTable.table_name}
       /\ pc' = "Validated" =>
             /\ pc = "PerTable"
             /\ idx > Len(ordered_tables)
             /\ ~db_result.validation.ran
       /\ pc' = "Done" => pc = "Validated"
       /\ pc \in {"Failed", "Done"} => UNCHANGED vars]_vars

(***************************************************************************)
(* Texts: sequences of characters. A multi-character element stands for a   *)
(* word the code treats as one token (null, true, True, ...).               *)
(***************************************************************************)
QUOTE == "\""

BACKSLASH == "\\"

\* the value None of an optional span or string
NoSpan == [found |-> FALSE, start |-> 0, end |-> 0]

Span(a, b) == [found |-> TRUE, start |-> a, end |-> b]

\* text.find(ch): index of the first occurrence, 0 for -1
Find(t, ch) == IndexOf(t, ch)

(***************************************************************************)
(* The balanced-span scanner of data_generator.py (the same code is in both *)
(* selenium_llm_parser.py files)                                            *)
(***************************************************************************)
RECURSIVE ExtractLoop(_, _, _, _, _, _)
\* the while loop of lines 261-279, at index i
ExtractLoop(t, start, i, depth, in_str, escape) ==
    IF i > Len(t) THEN NoSpan
    ELSE LET ch == t[i]
         IN IF in_str
            THEN IF escape THEN ExtractLoop(t, start, i + 1, depth, TRUE, FALSE)
                 ELSE IF ch = BACKSLASH THEN ExtractLoop(t, start, i + 1, depth, TRUE, TRUE)
                 ELSE IF ch = QUOTE THEN ExtractLoop(t, start, i + 1, depth, FALSE, FALSE)
                 ELSE ExtractLoop(t, start, i + 1, depth, TRUE, FALSE)
            ELSE IF ch = QUOTE THEN ExtractLoop(t, start, i + 1, depth, TRUE, escape)
                 ELSE IF ch = "[" THEN ExtractLoop(t, start, i + 1, depth + 1, FALSE, escape)
                 ELSE IF ch = "]"
                      THEN IF depth - 1 = 0 THEN Span(start, i)
                           ELSE ExtractLoop(t, start, i + 1, depth - 1, FALSE, escape)
                 ELSE ExtractLoop(t, start, i + 1, depth, FALSE, escape)

\* _extract_first_json_array(text)
ExtractFirstJsonArray(t) ==
    IF t = <<>> THEN NoSpan
    ELSE IF Find(t, "[") = 0 THEN NoSpan
    ELSE ExtractLoop(t, Find(t, "["), Find(t, "["), 0, FALSE, FALSE)

(***************************************************************************)
(* The balanced-span scanner of langchain_ollama.py                         *)
(***************************************************************************)
RECURSIVE FindLoop(_, _, _, _, _, _)
\* the for loop of lines 264-288, at index i; start = 0 stands for None
FindLoop(t, start, i, depth, in_str, esc) ==
    IF i > Len(t) THEN NoSpan
    ELSE LET ch == t[i]
         IN IF start = 0
            THEN IF ch = "[" THEN FindLoop(t, i, i + 1, 1, in_str, esc)
                 ELSE FindLoop(t, 0, i + 1, depth, in_str, esc)
            ELSE IF esc THEN FindLoop(t, start, i + 1, depth, in_str, FALSE)
                 ELSE IF ch = BACKSLASH THEN FindLoop(t, start, i + 1, depth, in_str, TRUE)
                 ELSE IF ch = QUOTE THEN FindLoop(t, start, i + 1, depth, ~in_str, FALSE)
                 ELSE IF in_str THEN FindLoop(t, start, i + 1, depth, TRUE, FALSE)
                 ELSE IF ch = "[" THEN FindLoop(t, start, i + 1, depth + 1, FALSE, FALSE)
                 ELSE IF ch = "]"
                      THEN IF depth - 1 = 0 THEN Span(start, i)
                           ELSE FindLoop(t, start, i + 1, depth - 1, FALSE, FALSE)
                 ELSE FindLoop(t, start, i + 1, depth, FALSE, FALSE)

\* _find_first_json_array(text)
FindFirstJsonArray(t) == FindLoop(t, 0, 1, 0, FALSE, FALSE)

(***************************************************************************)
(* Specification of the scanners applied to arbitrary short texts           *)
(***************************************************************************)
MaxScanLen == 6

ScanAlphabet == {"[", "]", QUOTE, BACKSLASH, "w"}

ApplyExtract ==
    /\ pc = "Scan"
    /\ applied' = "_extract_first_json_array"
    /\ result' = ExtractFirstJsonArray(text)
    /\ pc' = "Scanned"
    /\ UNCHANGED <<text, notFn>>

ApplyFind ==
    /\ pc = "Scan"
    /\ applied' = "_find_first_json_array"
    /\ result' = FindFirstJsonArray(text)
    /\ pc' = "Scanned"
    /\ UNCHANGED <<text, notFn>>

DbIdle ==
    /\ impl = ""
    /\ tables = <<>>
    /\ TopoIdle
    /\ GenIdle
    /\ warnings = <<>>

InitScan ==
    /\ pc = "Scan"
    /\ text \in SeqsUpTo(ScanAlphabet, MaxScanLen)
    /\ applied = ""
    /\ result = <<>>
    /\ DbIdle
    /\ PipeIdle

NextScan == ApplyExtract \/ ApplyFind

SpecScan == InitScan /\ [][NextScan]_vars

(***************************************************************************)
(* Claims about the scanners                                                *)
(***************************************************************************)
RECURSIVE InStringAt(_, _)
\* whether position i lies inside a double-quoted string, reading the text
\* from its beginning: <<inside, escaped>> before character i is read
InStringAt(t, i) ==
    IF i = 1 THEN <<FALSE, FALSE>>
    ELSE LET before == InStringAt(t, i - 1)
             ch == t[i - 1]
         IN IF before[1]
            THEN IF before[2] THEN <<TRUE, FALSE>>
                 ELSE IF ch = BACKSLASH THEN <<TRUE, TRUE>>
                 ELSE IF ch = QUOTE THEN <<FALSE, FALSE>>
                 ELSE <<TRUE, FALSE>>
            ELSE IF ch = QUOTE THEN <<TRUE, FALSE>> ELSE <<FALSE, FALSE>>

\* the opening brackets that are not inside a string
RealOpens(t) == {i \in DOMAIN t : t[i] = "[" /\ ~InStringAt(t, i)[1]}

\* the opening brackets that are inside a string
QuotedOpens(t) == {i \in DOMAIN t : t[i] = "[" /\ InStringAt(t, i)[1]}

RECURSIVE RealDepth(_, _, _)
\* depth after position i, counting from a only brackets outside strings
RealDepth(t, a, i) ==
    IF i < a THEN 0
    ELSE RealDepth(t, a, i - 1)
         + (IF InStringAt(t, i)[1] THEN 0
            ELSE IF t[i] = "[" THEN 1 ELSE IF t[i] = "]" THEN -1 ELSE 0)

\* the span of the first real array: from the first bracket outside a string
\* to the first position where the depth returns to zero
RealArraySpan(t) ==
    IF RealOpens(t) = {} THEN NoSpan
    ELSE LET a == CHOOSE i \in RealOpens(t) : \A j \in RealOpens(t) : i <= j
             ends == {i \in a..Len(t) : RealDepth(t, a, i) = 0}
         IN IF ends = {} THEN NoSpan
            ELSE Span(a, CHOOSE i \in ends : \A j \in ends : i <= j)

\* a bracket inside a string comes before a real, balanced array
QuotedBracketBeforeArray(t) ==
    /\ RealArraySpan(t).found
    /\ \E i \in QuotedOpens(t) : i < RealArraySpan(t).start

\* C3: when a '[' occurs inside a double-quoted string before a real array,
\* the scanner returns the span of the real array, never a span that starts
\* at the bracket inside the string
C3_StringAwareFromStart ==
    (pc = "Scanned" /\ QuotedBracketBeforeArray(text)) =>
        /\ result = RealArraySpan(text)
        /\ result.start \notin QuotedOpens(text)

\* depth after position i, counted from position a over the brackets outside
\* double-quoted strings, the text being read from a outside any string
DepthFrom(t, a, i) == RealDepth(SubSeq(t, a, Len(t)), 1, i - a + 1)

\* the positions from a on where that depth is zero
BalancedEnds(t, a) == {i \in a..Len(t) : DepthFrom(t, a, i) = 0}

\* C23: the scanner returns none when the text has no '[' and when the depth
\* never returns to zero; a span it returns starts at a '[' and ends at the
\* first position where the depth, counted over the brackets outside
\* double-quoted strings (an escaped quote not closing the string), is zero
C23_BalancedSpan ==
    pc = "Scanned" =>
        /\ Find(text, "[") = 0 => ~result.found
        /\ (Find(text, "[") # 0 /\ BalancedEnds(text, Find(text, "[")) = {})
              => ~result.found
        /\ result.found =>
              /\ result.start \in DOMAIN text
              /\ text[result.start] = "["
              /\ result.end \in BalancedEnds(text, result.start)
              /\ \A i \in BalancedEnds(text, result.start) : result.end <= i

\* C30: the two scanners agree: on every text the scanner that ran returns
\* what the other scanner returns for the same text
C30_ScannersAgree ==
    pc = "Scanned" =>
        result = IF applied = "_extract_first_json_array"
                 THEN FindFirstJsonArray(text)
                 ELSE ExtractFirstJsonArray(text)

(***************************************************************************)
(* The pre-parse repair transform of data_generator.py                      *)
(***************************************************************************)
\* Python's \s and str.strip() over the characters of the model
IsWs(ch) == ch \in {" ", "\n", "\t", "\r"}

RECURSIVE SkipWs(_, _)
\* the first index >= i that holds no whitespace (Len + 1 at the end): \s*
SkipWs(t, i) == IF i <= Len(t) /\ IsWs(t[i]) THEN SkipWs(t, i + 1) ELSE i

At(t, i) == IF i \in DOMAIN t THEN t[i] ELSE ""

From(t, i) == SubSeq(t, i, Len(t))

\* line 157: re.sub(r'^\s*\[\s*\[', '[', response)
DropOuterOpen(t) ==
    LET j == SkipWs(t, 1)
        k == SkipWs(t, j + 1)
    IN IF At(t, j) = "[" /\ At(t, k) = "[" THEN <<"[">> \o From(t, k + 1) ELSE t

\* whether r'\]\s*\]\s*$' matches at index i
OuterCloseAt(t, i) ==
    /\ At(t, i) = "]"
    /\ At(t, SkipWs(t, i + 1)) = "]"
    /\ SkipWs(t, SkipWs(t, i + 1) + 1) = Len(t) + 1

\* a removal that takes the first pair of closing brackets, wherever it is
DropFirstClosePair(t) ==
    LET ms == {i \in DOMAIN t : At(t, i) = "]" /\ At(t, SkipWs(t, i + 1)) = "]"}
        m == CHOOSE i \in ms : \A j \in ms : i <= j
    IN IF ms = {} THEN t
       ELSE SubSeq(t, 1, m - 1) \o <<"]">> \o From(t, SkipWs(t, m + 1) + 1)

\* line 158: re.sub(r'\]\s*\]\s*$', ']', response)
DropOuterClose(t) ==
    LET ms == {i \in DOMAIN t : OuterCloseAt(t, i)}
    IN IF ms = {} THEN t
       ELSE SubSeq(t, 1, (CHOOSE i \in ms : \A j \in ms : i <= j) - 1) \o <<"]">>

RECURSIVE LineEnd(_, _)
\* the first index >= i holding a newline (Len + 1 at the end): .*
LineEnd(t, i) == IF i <= Len(t) /\ t[i] # "\n" THEN LineEnd(t, i + 1) ELSE i

RECURSIVE DropLineComments(_, _)
\* line 161: re.sub(r'//.*', '', response), from index i
DropLineComments(t, i) ==
    IF i > Len(t) THEN <<>>
    ELSE IF t[i] = "/" /\ At(t, i + 1) = "/" THEN DropLineComments(t, LineEnd(t, i + 2))
    ELSE <<t[i]>> \o DropLineComments(t, i + 1)

RECURSIVE BlockEnd(_, _)
\* the first index j >= i with '*/' at j (0 when there is none): .*?\*/
BlockEnd(t, i) ==
    IF i >= Len(t) THEN 0
    ELSE IF t[i] = "*" /\ t[i + 1] = "/" THEN i
    ELSE BlockEnd(t, i + 1)

RECURSIVE DropBlockComments(_, _)
\* line 162: re.sub(r'/\*.*?\*/', '', response, flags=re.DOTALL), from index i
DropBlockComments(t, i) ==
    IF i > Len(t) THEN <<>>
    ELSE IF t[i] = "/" /\ At(t, i + 1) = "*" /\ BlockEnd(t, i + 2) # 0
         THEN DropBlockComments(t, BlockEnd(t, i + 2) + 2)
    ELSE <<t[i]>> \o DropBlockComments(t, i + 1)

RECURSIVE DropTrailingCommas(_, _)
\* line 165: re.sub(r',(\s*\])', r'\1', response), from index i
DropTrailingCommas(t, i) ==
    IF i > Len(t) THEN <<>>
    ELSE IF t[i] = "," /\ At(t, SkipWs(t, i + 1)) = "]"
         THEN SubSeq(t, i + 1, SkipWs(t, i + 1))
              \o DropTrailingCommas(t, SkipWs(t, i + 1) + 1)
    ELSE <<t[i]>> \o DropTrailingCommas(t, i + 1)

RECURSIVE SplitLines(_, _)
\* response.splitlines(), from index i: no empty last line
SplitLines(t, i) ==
    IF i > Len(t) THEN <<>>
    ELSE <<SubSeq(t, i, LineEnd(t, i) - 1)>> \o SplitLines(t, LineEnd(t, i) + 1)

IsBlank(line) == \A k \in DOMAIN line : IsWs(line[k])

RECURSIVE JoinLines(_)
\* '\n'.join(lines)
JoinLines(ls) ==
    IF ls = <<>> THEN <<>>
    ELSE IF Len(ls) = 1 THEN ls[1]
    ELSE ls[1] \o <<"\n">> \o JoinLines(Tail(ls))

\* line 168: drop the lines that are empty after strip()
DropBlankLines(t) == JoinLines(SelectSeq(SplitLines(t, 1), LAMBDA l : ~IsBlank(l)))

RECURSIVE UnescapeSingleQuotes(_, _)
\* line 172: response.replace("\\'", "'"), from index i
UnescapeSingleQuotes(t, i) ==
    IF i > Len(t) THEN <<>>
    ELSE IF t[i] = BACKSLASH /\ At(t, i + 1) = "'"
         THEN <<"'">> \o UnescapeSingleQuotes(t, i + 2)
    ELSE <<t[i]>> \o UnescapeSingleQuotes(t, i + 1)

\* whether open \s* null \s* close matches at index i; its last index, or 0
NullBetween(t, i, open, close) ==
    LET k == SkipWs(t, i + 1)
        m == SkipWs(t, k + 1)
    IN IF At(t, i) = open /\ At(t, k) = "null" /\ At(t, m) = close THEN m ELSE 0

RECURSIVE DropNulls(_, _, _, _, _)
\* lines 176-178: re.sub(open \s*null\s* close, keep, response), from index i
DropNulls(t, i, open, close, keep) ==
    IF i > Len(t) THEN <<>>
    ELSE IF NullBetween(t, i, open, close) # 0
         THEN <<keep>> \o DropNulls(t, NullBetween(t, i, open, close) + 1, open, close, keep)
    ELSE <<t[i]>> \o DropNulls(t, i + 1, open, close, keep)

RECURSIVE SkipCommas(_, _)
\* the first index >= i that holds no comma: ,+
SkipCommas(t, i) == IF i <= Len(t) /\ t[i] = "," THEN SkipCommas(t, i + 1) ELSE i

RECURSIVE CollapseCommas(_, _)
\* line 181: re.sub(r',\s*,+', ',', response), from index i
CollapseCommas(t, i) ==
    IF i > Len(t) THEN <<>>
    ELSE IF t[i] = "," /\ At(t, SkipWs(t, i + 1)) = ","
         THEN <<",">> \o CollapseCommas(t, SkipCommas(t, SkipWs(t, i + 1)))
    ELSE <<t[i]>> \o CollapseCommas(t, i + 1)

\* lines 176-181 in order
DropStrayNulls(t) ==
    LET a == DropNulls(t, 1, ",", ",", ",")
        b == DropNulls(a, 1, ",", "}", "}")
        c == DropNulls(b, 1, "{", ",", "{")
    IN CollapseCommas(c, 1)

\* lines 160-183: the rules that follow the removal of double brackets
CleanAfterCollapse(a) ==
    LET b == DropBlockComments(DropLineComments(a, 1), 1)
        c == DropTrailingCommas(b, 1)
        d == DropBlankLines(c)
        e == UnescapeSingleQuotes(d, 1)
    IN DropStrayNulls(e)

\* TestDataGenerator._clean_json_response(response)
CleanJsonResponse(t) == CleanAfterCollapse(DropOuterClose(DropOuterOpen(t)))

(***************************************************************************)
(* Specification of the repair transform applied to arbitrary short texts   *)
(***************************************************************************)
MaxCleanLen == 4

CleanAlphabet == {"[", "]", "{", "}", ",", " ", "\n", "null", "/", "*", BACKSLASH, "'", "1"}

\* json_str = self._clean_json_response(json_str)
ApplyClean ==
    /\ pc = "Clean"
    /\ applied' = "_clean_json_response"
    /\ result' = <<CleanJsonResponse(text)>>
    /\ pc' = "Cleaned"
    /\ UNCHANGED <<text, notFn>>

\* the transform applied to its own output
ApplyCleanAgain ==
    /\ pc = "Cleaned"
    /\ result' = Append(result, CleanJsonResponse(result[1]))
    /\ pc' = "CleanedTwice"
    /\ UNCHANGED <<text, applied, notFn>>

InitClean ==
    /\ pc = "Clean"
    /\ text \in SeqsUpTo(CleanAlphabet, MaxCleanLen)
    /\ applied = ""
    /\ result = <<>>
    /\ DbIdle
    /\ PipeIdle

NextClean == ApplyClean \/ ApplyCleanAgain

SpecClean == InitClean /\ [][NextClean]_vars

(***************************************************************************)
(* Specification of the repair transform applied to texts whose array is    *)
(* wrapped in one more pair of brackets                                     *)
(***************************************************************************)
\* the text of end-to-end scenario C
DoubledExample == <<"[", "[", "{", QUOTE, "x", QUOTE, ":", "1", "}", "]", "]">>

\* [[ content ]], with or without a space between the doubled brackets
WrappedTexts ==
    {<<"[">> \o open \o <<"[">> \o content \o <<"]">> \o close \o <<"]">> :
        content \in SeqsUpTo(CleanAlphabet, MaxCleanLen - 1),
        open \in {<<>>, <<" ">>}, close \in {<<>>, <<" ">>}}
    \cup {DoubledExample}

InitWrapped ==
    /\ pc = "Clean"
    /\ text \in WrappedTexts
    /\ applied = ""
    /\ result = <<>>
    /\ DbIdle
    /\ PipeIdle

NextWrapped == ApplyClean

SpecWrapped == InitWrapped /\ [][NextWrapped]_vars

\* what stands between the doubled brackets of a wrapped text
WrappedContent(t) ==
    LET open == SkipWs(t, 2)
        last == {i \in DOMAIN t : t[i] = "]" /\ i < Len(t)}
        close == CHOOSE i \in last : \A j \in last : j <= i
    IN SubSeq(t, open + 1, close - 1)

\* C22: a text whose array is wrapped in one extra pair of brackets at the
\* very start and very end is rewritten to the single-bracket form, the
\* content between the brackets unchanged
C22_CollapseKeepsContent ==
    pc = "Cleaned" => result[1] = <<"[">> \o WrappedContent(text) \o <<"]">>

\* C22 as amended: the extra pair is removed and the content is changed by
\* nothing but the later repair rules: the result is what those rules make
\* of the single-bracket form
C22_CollapseThenRepair ==
    pc = "Cleaned" =>
        result[1] = CleanAfterCollapse(<<"[">> \o WrappedContent(text) \o <<"]">>)

\* scenario C, and a content that ends in a closing bracket of its own
C22_Witness ==
    /\ pc = "Cleaned"
    /\ text = DoubledExample
    /\ result[1] = <<"[", "{", QUOTE, "x", QUOTE, ":", "1", "}", "]">>

\* C5: the pre-parse repair transform is idempotent: clean(clean(x)) equals
\* clean(x) for every input text x
C5_CleanIdempotent == pc = "CleanedTwice" => result[2] = result[1]

(***************************************************************************)
(* json.loads as the pipeline calls it. Positions are Python's: 0-based     *)
(***************************************************************************)
\* a control character other than \n, \r and \t (it stands for U+0007)
CTRL == "<BEL>"

\* the values json.loads builds
JsonValue(kind, s, items, keys) == [kind |-> kind, s |-> s, items |-> items, keys |-> keys]

JStr(s) == JsonValue("str", s, <<>>, <<>>)

JInt(digits) == JsonValue("int", digits, <<>>, <<>>)

\* None, True, False
JLit(word) == JsonValue(word, <<>>, <<>>, <<>>)

JList(items) == JsonValue("list", <<>>, items, <<>>)

\* a dict: keys[k] maps to items[k]; a repeated key keeps its last value
JDict(keys, items) == JsonValue("dict", <<>>, items, keys)

HasKey(d, key) == \E k \in DOMAIN d.keys : d.keys[k] = key

\* d[key]
DictGet(d, key) ==
    d.items[CHOOSE k \in DOMAIN d.keys :
                /\ d.keys[k] = key
                /\ \A m \in DOMAIN d.keys : d.keys[m] = key => m <= k]

\* a value decoded, and the index after it
Decoded(val, next) == [ok |-> TRUE, val |-> val, next |-> next, pos |-> 0]

\* JSONDecodeError raised at the character of index i (pos = i - 1)
DecodeError(i) == [ok |-> FALSE, val |-> JLit("null"), next |-> 0, pos |-> i - 1]

\* the character a backslash escape stands for, "" for an invalid escape
Unescape(ch) ==
    CASE ch = QUOTE -> QUOTE
      [] ch = BACKSLASH -> BACKSLASH
      [] ch = "/" -> "/"
      [] ch = "n" -> "\n"
      [] ch = "t" -> "\t"
      [] ch = "r" -> "\r"
      [] OTHER -> ""

\* the characters a strict decoder refuses inside a string
IsControl(ch) == ch \in {"\n", "\t", "\r", CTRL}

RECURSIVE ScanString(_, _, _, _, _)
\* the string that opens at begin, read from index i on
ScanString(t, begin, i, acc, strict) ==
    IF i > Len(t) THEN DecodeError(begin)
    ELSE IF t[i] = QUOTE THEN Decoded(JStr(acc), i + 1)
    ELSE IF t[i] = BACKSLASH
         THEN IF i + 1 > Len(t) THEN DecodeError(begin)
              ELSE IF Unescape(t[i + 1]) = "" THEN DecodeError(i)
              ELSE ScanString(t, begin, i + 2, Append(acc, Unescape(t[i + 1])), strict)
    ELSE IF strict /\ IsControl(t[i]) THEN DecodeError(i)
    ELSE ScanString(t, begin, i + 1, Append(acc, t[i]), strict)

IsDigit(ch) == ch \in {"1"}

RECURSIVE DigitsEnd(_, _)
\* the first index >= i that holds no digit
DigitsEnd(t, i) == IF i <= Len(t) /\ IsDigit(t[i]) THEN DigitsEnd(t, i + 1) ELSE i

RECURSIVE ParseValue(_, _, _)
RECURSIVE ParseItems(_, _, _, _)
RECURSIVE ParseMembers(_, _, _, _, _)
\* the value that starts at index i
ParseValue(t, i, strict) ==
    IF i > Len(t) THEN DecodeError(i)
    ELSE IF t[i] = QUOTE THEN ScanString(t, i, i + 1, <<>>, strict)
    ELSE IF t[i] = "{"
         THEN LET j == SkipWs(t, i + 1)
              IN IF At(t, j) = "}" THEN Decoded(JDict(<<>>, <<>>), j + 1)
                 ELSE IF At(t, j) # QUOTE THEN DecodeError(j)
                 ELSE ParseMembers(t, j, <<>>, <<>>, strict)
    ELSE IF t[i] = "["
         THEN LET j == SkipWs(t, i + 1)
              IN IF At(t, j) = "]" THEN Decoded(JList(<<>>), j + 1)
                 ELSE ParseItems(t, j, <<>>, strict)
    ELSE IF t[i] \in {"null", "true", "false"} THEN Decoded(JLit(t[i]), i + 1)
    ELSE IF IsDigit(t[i])
         THEN Decoded(JInt(SubSeq(t, i, DigitsEnd(t, i) - 1)), DigitsEnd(t, i))
    ELSE DecodeError(i)

\* the items of an array, the next one starting at index i
ParseItems(t, i, items, strict) ==
    LET v == ParseValue(t, i, strict)
        j == SkipWs(t, v.next)
    IN IF ~v.ok THEN v
       ELSE IF At(t, j) = "]" THEN Decoded(JList(Append(items, v.val)), j + 1)
       ELSE IF At(t, j) # "," THEN DecodeError(j)
       ELSE ParseItems(t, SkipWs(t, j + 1), Append(items, v.val), strict)

\* the members of an object, the next key opening at index i
ParseMembers(t, i, keys, items, strict) ==
    LET key == ScanString(t, i, i + 1, <<>>, strict)
        c == SkipWs(t, key.next)
        v == ParseValue(t, SkipWs(t, c + 1), strict)
        j == SkipWs(t, v.next)
        q == SkipWs(t, j + 1)
    IN IF ~key.ok THEN key
       ELSE IF At(t, c) # ":" THEN DecodeError(c)
       ELSE IF ~v.ok THEN v
       ELSE IF At(t, j) = "}"
            THEN Decoded(JDict(Append(keys, key.val.s), Append(items, v.val)), j + 1)
       ELSE IF At(t, j) # "," THEN DecodeError(j)
       ELSE IF At(t, q) # QUOTE THEN DecodeError(q)
       ELSE ParseMembers(t, q, Append(keys, key.val.s), Append(items, v.val), strict)

\* json.loads(t, strict=strict): the document, or the error and its position
JsonLoads(t, strict) ==
    LET v == ParseValue(t, SkipWs(t, 1), strict)
        e == SkipWs(t, v.next)
    IN IF ~v.ok THEN v
       ELSE IF e # Len(t) + 1 THEN DecodeError(e)
       ELSE v

(***************************************************************************)
(* The steps of the response pipeline                                       *)
(***************************************************************************)
RECURSIVE LastNonWs(_, _)
\* the last index <= i that holds no whitespace, 0 when there is none
LastNonWs(t, i) == IF i >= 1 /\ IsWs(t[i]) THEN LastNonWs(t, i - 1) ELSE i

\* str.strip()
Strip(t) == SubSeq(t, SkipWs(t, 1), LastNonWs(t, Len(t)))

\* the name of the payload field of a streamed line
ResponseKey == <<"response">>

RECURSIVE ReassembleUntilBadLine(_, _, _)
\* a reassembly that a line which does not parse brings to an end
ReassembleUntilBadLine(lines, k, assembled) ==
    IF k > Len(lines) THEN assembled
    ELSE LET line == Strip(lines[k])
             obj == JsonLoads(line, TRUE)
         IN IF line = <<>> THEN ReassembleUntilBadLine(lines, k + 1, assembled)
            ELSE IF ~obj.ok THEN assembled
            ELSE IF obj.val.kind = "dict" /\ HasKey(obj.val, ResponseKey)
                    /\ DictGet(obj.val, ResponseKey).kind = "str"
                 THEN ReassembleUntilBadLine(lines, k + 1,
                                             assembled \o DictGet(obj.val, ResponseKey).s)
            ELSE ReassembleUntilBadLine(lines, k + 1, assembled)

RECURSIVE Reassemble(_, _, _)
\* the loop over (response or '').splitlines(), at line k
Reassemble(lines, k, assembled) ==
    IF k > Len(lines) THEN assembled
    ELSE LET line == Strip(lines[k])
             obj == JsonLoads(line, TRUE)
         IN IF line = <<>> THEN Reassemble(lines, k + 1, assembled)
            ELSE IF ~obj.ok THEN Reassemble(lines, k + 1, assembled)
            ELSE IF obj.val.kind = "dict" /\ HasKey(obj.val, ResponseKey)
                 THEN IF DictGet(obj.val, ResponseKey).kind = "str"
                      THEN Reassemble(lines, k + 1,
                                      assembled \o DictGet(obj.val, ResponseKey).s)
                      \* str += non-str raises TypeError, which the inner
                      \* except Exception swallows
                      ELSE Reassemble(lines, k + 1, assembled)
            ELSE Reassemble(lines, k + 1, assembled)

\* source_for_extraction = assembled if assembled else (response or '')
SourceForExtraction(resp) ==
    LET assembled == Reassemble(SplitLines(resp, 1), 1, <<>>)
    IN IF assembled # <<>> THEN assembled ELSE resp

\* the text of a span
Slice(t, span) == SubSeq(t, span.start, span.end)

\* a match that starts at the last '[' instead
GreedyArrayFromLastOpen(t) ==
    LET opens == {i \in DOMAIN t : t[i] = "[" /\ \E j \in DOMAIN t : j > i /\ t[j] = "]"}
        closes == {j \in DOMAIN t : t[j] = "]"}
    IN IF opens = {} THEN [found |-> FALSE, start |-> 0, end |-> 0]
       ELSE [found |-> TRUE,
             start |-> CHOOSE i \in opens : \A k \in opens : k <= i,
             end |-> CHOOSE j \in closes : \A k \in closes : k <= j]

\* re.search(r'\[.*\]', t, re.DOTALL): from the first '[' to the last ']'
GreedyArray(t) ==
    LET closes == {i \in DOMAIN t : t[i] = "]" /\ i > Find(t, "[")}
    IN IF Find(t, "[") = 0 \/ closes = {} THEN NoSpan
       ELSE Span(Find(t, "["), CHOOSE i \in closes : \A j \in closes : j <= i)

\* data_generator.py: what is parsed when no array is found anywhere
IncompleteResponse(resp) ==
    LET stripped == Strip(resp)
        closed == IF At(stripped, 1) = "[" /\ At(stripped, Len(stripped)) # "]"
                  THEN stripped \o <<"\n", "]">>
                  ELSE stripped
    IN DropTrailingCommas(closed, 1)

\* the candidate document: the scanner's span of the source text, else the
\* greedy match on the raw response, else what the copy falls back to
Candidate(v, resp, source) ==
    IF ExtractFirstJsonArray(source).found THEN Slice(source, ExtractFirstJsonArray(source))
    ELSE IF GreedyArray(resp).found THEN Slice(resp, GreedyArray(resp))
    ELSE IF v = "data_generator" THEN IncompleteResponse(resp)
    ELSE Strip(source)

\* Backend/selenium_llm_parser.py step 1: drop the control characters
RemoveControl(t) == SelectSeq(t, LAMBDA ch : ch # CTRL)

\* [a-z_]
IsLower(ch) == ch \in {"a", "n", "t", "r", "response", "null", "true", "false"}

RECURSIVE LowerEnd(_, _)
\* the first index >= i that holds no [a-z_]
LowerEnd(t, i) == IF i <= Len(t) /\ IsLower(t[i]) THEN LowerEnd(t, i + 1) ELSE i

RECURSIVE NextQuote(_, _)
\* the first index >= i that holds a quote (Len + 1 at the end): [^"]*
NextQuote(t, i) == IF i <= Len(t) /\ t[i] # QUOTE THEN NextQuote(t, i + 1) ELSE i

\* whether "([a-z_]+)" \s* : matches with its first quote at index q; the
\* index of the colon, or 0
KeyAt(t, q) ==
    LET r == LowerEnd(t, q + 1)
        c == SkipWs(t, r + 1)
    IN IF At(t, q) = QUOTE /\ r > q + 1 /\ At(t, r) = QUOTE /\ At(t, c) = ":"
       THEN c ELSE 0

\* whether (:\s*"[^"]*)\s+"([a-z_]+)"\s*: matches at index i; the index of
\* the quote that opens the key, or 0
OpenValueAt(t, i) ==
    LET j == SkipWs(t, i + 1)
        q == NextQuote(t, j + 1)
    IN IF At(t, i) = ":" /\ At(t, j) = QUOTE /\ q - 1 > j /\ IsWs(At(t, q - 1))
          /\ KeyAt(t, q) # 0
       THEN q ELSE 0

RECURSIVE CloseOpenValues(_, _)
\* step 2: re.sub(r'(:\s*"[^"]*)\s+"([a-z_]+)"\s*:', r'\1", "\2":', t), from i
CloseOpenValues(t, i) ==
    IF i > Len(t) THEN <<>>
    ELSE IF OpenValueAt(t, i) # 0
         THEN LET q == OpenValueAt(t, i)
              IN SubSeq(t, i, q - 2) \o <<QUOTE, ",", " ", QUOTE>>
                 \o SubSeq(t, q + 1, LowerEnd(t, q + 1) - 1) \o <<QUOTE, ":">>
                 \o CloseOpenValues(t, KeyAt(t, q) + 1)
    ELSE <<t[i]>> \o CloseOpenValues(t, i + 1)

RECURSIVE SpacesEnd(_, _)
\* the first index >= i that holds no space
SpacesEnd(t, i) == IF i <= Len(t) /\ t[i] = " " THEN SpacesEnd(t, i + 1) ELSE i

RECURSIVE CollapseSpaces(_, _)
\* step 3: re.sub(r'  +', ' ', t), from index i
CollapseSpaces(t, i) ==
    IF i > Len(t) THEN <<>>
    ELSE IF t[i] = " " THEN <<" ">> \o CollapseSpaces(t, SpacesEnd(t, i))
    ELSE <<t[i]>> \o CollapseSpaces(t, i + 1)

\* Backend/selenium_llm_parser.py lines 212-234, in order
Sanitized(t) == CollapseSpaces(CloseOpenValues(RemoveControl(t), 1), 1)

\* whether "\s+"([a-z_]+)":\s* matches at index i; the index of the quote
\* that opens the key, or 0
MissingCommaAt(t, i) ==
    LET q == SkipWs(t, i + 1)
        r == LowerEnd(t, q + 1)
    IN IF At(t, i) = QUOTE /\ q > i + 1 /\ At(t, q) = QUOTE /\ r > q + 1
          /\ At(t, r) = QUOTE /\ At(t, r + 1) = ":"
       THEN q ELSE 0

RECURSIVE InsertMissingCommas(_, _)
\* the repair: re.sub(r'"\s+"([a-z_]+)":\s*', r'", "\1": ', t), from index i
InsertMissingCommas(t, i) ==
    IF i > Len(t) THEN <<>>
    ELSE IF MissingCommaAt(t, i) # 0
         THEN LET q == MissingCommaAt(t, i)
                  r == LowerEnd(t, q + 1)
              IN <<QUOTE, ",", " ", QUOTE>> \o SubSeq(t, q + 1, r - 1)
                 \o <<QUOTE, ":", " ">>
                 \o InsertMissingCommas(t, SkipWs(t, r + 2))
    ELSE <<t[i]>> \o InsertMissingCommas(t, i + 1)

(***************************************************************************)
(* The response pipeline, of which there are three copies:                  *)
(* TestDataGenerator.generate_data and the two parse_selenium_script        *)
(***************************************************************************)
Variants == {"data_generator", "selenium_llm_parser", "Backend/selenium_llm_parser"}

Backend == "Backend/selenium_llm_parser"

\* the sizes the code cuts its diagnostics to
RawSnippetChars == 1000

ParserSnippetChars == 1500

BackendSnippetChars == 2000

ContextChars == 50

\* t[:n]
Take(t, n) == SubSeq(t, 1, IF n < Len(t) THEN n ELSE Len(t))

\* t[max(0, pos - n):min(len(t), pos + n)]
Around(t, pos, n) ==
    SubSeq(t, (IF pos - n > 0 THEN pos - n ELSE 0) + 1,
              IF pos + n < Len(t) THEN pos + n ELSE Len(t))

\* if not isinstance(parsed, list): parsed = [parsed]
AsList(val) == IF val.kind = "list" THEN val.items ELSE <<val>>

NameKey == <<"name">>

TypeKey == <<"type">>

\* item.get('name', '')
NameOf(item) == IF HasKey(item, NameKey) THEN DictGet(item, NameKey) ELSE JStr(<<>>)

\* one normalized field description; rules, description, example and
\* confidence are read out of the item in the same way as type
Normalized(item) ==
    [name |-> Strip(NameOf(item).s),
     type |-> IF HasKey(item, TypeKey) THEN DictGet(item, TypeKey)
              ELSE JStr(<<"string">>)]

Outcome(kind, data) == [NoOutcome EXCEPT !.kind = kind, !.data = data]

\* what generate_data returns for a parsed document
GeneratedData(val, n) == Outcome("data", Take(AsList(val), n))

\* what parse_selenium_script returns for a parsed document
ParsedFields(val, source) ==
    LET dicts == SelectSeq(AsList(val), LAMBDA item : item.kind = "dict")
    IN IF \E k \in DOMAIN dicts : NameOf(dicts[k]).kind # "str"
       THEN Outcome("LLM parsing failed", <<>>)
       ELSE IF dicts = <<>>
            THEN [Outcome("No fields parsed from LLM output", <<>>)
                     EXCEPT !.raw_snippet = Take(source, ParserSnippetChars)]
       ELSE Outcome("fields", [k \in DOMAIN dicts |-> Normalized(dicts[k])])

Delivered(v, val, source, n) ==
    IF v = "data_generator" THEN GeneratedData(val, n) ELSE ParsedFields(val, source)

\* data_generator.py lines 306-313 and 345-346: the exception raised
FailedToParse(pos, resp) ==
    [Outcome("Failed to parse JSON", <<>>)
        EXCEPT !.has_pos = TRUE, !.pos = pos,
               !.raw_snippet = Take(resp, RawSnippetChars)]

\* selenium_llm_parser.py lines 197-199: the pair returned
FailedToDecode(pos, source) ==
    [Outcome("Failed to JSON-decode parser output", <<>>)
        EXCEPT !.has_pos = TRUE, !.pos = pos,
               !.raw_snippet = Take(source, ParserSnippetChars)]

\* Backend/selenium_llm_parser.py lines 257-261: the pair returned
FailedAfterRepair(pos, doc, source) ==
    [Outcome("Failed to JSON-decode parser output", <<>>)
        EXCEPT !.has_pos = TRUE, !.pos = pos,
               !.has_window = TRUE, !.window = Around(doc, pos, ContextChars),
               !.raw_snippet = Take(source, BackendSnippetChars)]

\* the NDJSON assembly at the head of the pipeline
Reassembly ==
    /\ pc = "Received"
    /\ source_text' = SourceForExtraction(response)
    /\ passes' = Append(passes, "reassemble")
    /\ pc' = "Reassembled"
    /\ UNCHANGED <<variant, records_asked, response, json_str, parse_error,
                   outcome, notPipe>>

\* the scanner and its fallbacks
ExtractArray ==
    /\ pc = "Reassembled"
    /\ json_str' = Candidate(variant, response, source_text)
    /\ passes' = Append(passes, "extract")
    /\ pc' = "Extracted"
    /\ UNCHANGED <<variant, records_asked, response, source_text, parse_error,
                   outcome, notPipe>>

\* json_str = _clean_json_response(json_str)
CleanPass ==
    /\ pc = "Extracted"
    /\ json_str' = CleanJsonResponse(json_str)
    /\ passes' = Append(passes, "clean")
    /\ pc' = "PassOne"
    /\ UNCHANGED <<variant, records_asked, response, source_text, parse_error,
                   outcome, notPipe>>

\* the three extra steps of the Backend copy
Sanitize ==
    /\ pc = "PassOne"
    /\ variant = Backend
    /\ json_str' = Sanitized(json_str)
    /\ passes' = Append(passes, "sanitize")
    /\ pc' = "Sanitized"
    /\ UNCHANGED <<variant, records_asked, response, source_text, parse_error,
                   outcome, notPipe>>

\* the first json.loads and, in the copies that stop there, the failure
Parse ==
    /\ pc = (IF variant = Backend THEN "Sanitized" ELSE "PassOne")
    /\ passes' = Append(passes, "parse")
    /\ LET r == JsonLoads(json_str, variant # Backend)
       IN IF r.ok
          THEN /\ outcome' = Delivered(variant, r.val, source_text, records_asked)
               /\ pc' = "Returned"
               /\ UNCHANGED parse_error
          ELSE IF variant = Backend
               THEN /\ parse_error' = [raised |-> TRUE, pos |-> r.pos]
                    /\ pc' = "ParseFailed"
                    /\ UNCHANGED outcome
          ELSE /\ parse_error' = [raised |-> TRUE, pos |-> r.pos]
               /\ outcome' = IF variant = "data_generator"
                             THEN FailedToParse(r.pos, response)
                             ELSE FailedToDecode(r.pos, source_text)
               /\ pc' = "Returned"
    /\ UNCHANGED <<variant, records_asked, response, source_text, json_str, notPipe>>

\* Backend copy: the repair and the second json.loads
RepairAndRetry ==
    /\ pc = "ParseFailed"
    /\ passes' = passes \o <<"repair", "parse">>
    /\ LET r == JsonLoads(InsertMissingCommas(json_str, 1), FALSE)
       IN outcome' = IF r.ok
                     THEN Delivered(variant, r.val, source_text, records_asked)
                     ELSE FailedAfterRepair(parse_error.pos, json_str, source_text)
    /\ pc' = "Returned"
    /\ UNCHANGED <<variant, records_asked, response, source_text, json_str,
                   parse_error, notPipe>>

(***************************************************************************)
(* Specification of the pipeline on responses made of a few lines           *)
(***************************************************************************)
MaxLines == 3

MaxRecords == 1

RECURSIVE JsonEscape(_)
\* the characters of a string as they stand inside a JSON string literal
JsonEscape(t) ==
    IF t = <<>> THEN <<>>
    ELSE (IF Head(t) \in {QUOTE, BACKSLASH} THEN <<BACKSLASH, Head(t)>> ELSE <<Head(t)>>)
         \o JsonEscape(Tail(t))

\* a streamed line that carries a piece of the logical response
StreamLine(piece) ==
    <<"{", QUOTE, "response", QUOTE, ":", QUOTE>> \o JsonEscape(piece) \o <<QUOTE, "}">>

\* the two halves of a good array
Halves == {<<"[", "1", ",">>, <<"1", "]">>}

\* pieces of documents: the halves, an array with a Python literal, an array
\* whose object lacks a separator
Pieces ==
    Halves \cup
    {<<"[", "True", "]">>,
     <<"[", "{", QUOTE, "a", QUOTE, ":", QUOTE, "a", QUOTE, " ",
       QUOTE, "a", QUOTE, ":", "1", "}", "]">>}

\* the lines a response is made of: blank, not JSON, JSON but no object, an
\* object without the payload field, a payload that is no string, an array
\* whose string a control character cut short, streamed pieces, and the
\* halves sent bare
LineKinds ==
    {<<" ">>,
     <<"a">>,
     <<"1">>,
     <<"{", QUOTE, "a", QUOTE, ":", "1", "}">>,
     <<"{", QUOTE, "response", QUOTE, ":", "1", "}">>,
     <<"[", "{", QUOTE, "a", QUOTE, ":", QUOTE, CTRL, " ",
       QUOTE, "a", QUOTE, ":", "1", "}", "]">>}
    \cup {StreamLine(piece) : piece \in Pieces}
    \cup Halves

Responses == {JoinLines(ls) : ls \in SeqsUpTo(LineKinds, MaxLines)}

InitGen ==
    /\ pc = "Received"
    /\ variant \in Variants
    /\ records_asked \in (IF variant = "data_generator" THEN 1..MaxRecords ELSE {0})
    /\ response \in Responses
    /\ source_text = <<>>
    /\ json_str = <<>>
    /\ passes = <<>>
    /\ parse_error = NoParseError
    /\ outcome = NoOutcome
    /\ text = <<>>
    /\ applied = ""
    /\ result = <<>>
    /\ DbIdle
    /\ LlmIdle

NextGen ==
    \/ Reassembly
    \/ ExtractArray
    \/ CleanPass
    \/ Sanitize
    \/ Parse
    \/ RepairAndRetry

SpecGen == InitGen /\ [][NextGen]_vars

(***************************************************************************)
(* Claims about the response pipeline                                       *)
(***************************************************************************)
\* what a line contributes: the payload string of a non-empty line that
\* parses as a JSON object containing the payload field, nothing otherwise
\* (a payload that is no string has no string to contribute)
PayloadOf(line) ==
    LET obj == JsonLoads(Strip(line), TRUE)
    IN IF /\ Strip(line) # <<>>
          /\ obj.ok
          /\ obj.val.kind = "dict"
          /\ HasKey(obj.val, ResponseKey)
          /\ DictGet(obj.val, ResponseKey).kind = "str"
       THEN DictGet(obj.val, ResponseKey).s
       ELSE <<>>

RECURSIVE Concat(_)
Concat(ss) == IF ss = <<>> THEN <<>> ELSE Head(ss) \o Concat(Tail(ss))

ExpectedSource(resp) ==
    LET lines == SplitLines(resp, 1)
        payload == Concat([k \in DOMAIN lines |-> PayloadOf(lines[k])])
    IN IF payload # <<>> THEN payload ELSE resp

\* C6: the reassembled text is the concatenation, in line order, of the
\* payload strings of exactly the non-empty lines that parse as a JSON object
\* containing the payload field; every other line is skipped without ending
\* the reassembly; when nothing was accumulated the raw response is used
C6_Reassembly == passes # <<>> => source_text = ExpectedSource(response)

\* a response whose two payload lines have a line that does not parse
\* between them, reassembled
C6_Witness ==
    /\ pc = "Reassembled"
    /\ response = JoinLines(<<StreamLine(<<"[", "1", ",">>), <<"a">>,
                              StreamLine(<<"1", "]">>)>>)
    /\ source_text = <<"[", "1", ",", "1", "]">>

\* the scanner found no span in the source text, and the raw response holds
\* a '[' with a ']' somewhere after it
FallbackCase ==
    /\ pc # "Received"
    /\ ~ExtractFirstJsonArray(source_text).found
    /\ \E i, j \in DOMAIN response : i < j /\ response[i] = "[" /\ response[j] = "]"

\* the raw response from its first '[' to its last ']'
GreedySpanOf(resp) ==
    LET opens == {i \in DOMAIN resp : resp[i] = "["}
        closes == {j \in DOMAIN resp : resp[j] = "]"}
    IN SubSeq(resp, CHOOSE i \in opens : \A k \in opens : i <= k,
                    CHOOSE j \in closes : \A k \in closes : k <= j)

C27_RepairKeepsWellFormed ==
    (/\ pc = "Cleaned"
     /\ applied = "_clean_json_response"
     /\ JsonLoads(text, TRUE).ok
     /\ JsonLoads(text, TRUE).val.kind = "list")
        => /\ JsonLoads(result[1], TRUE).ok
           /\ JsonLoads(result[1], TRUE).val = JsonLoads(text, TRUE).val

ParseFailureKinds == {"Failed to parse JSON", "Failed to JSON-decode parser output"}

\* C7: when the parse of the cleaned text fails, the second repair pass is
\* applied and the parse retried before a failure is reported to the caller;
\* the second pass is never applied when the first parse succeeds
C7_RepairBeforeFailure ==
    pc = "Returned" =>
        /\ outcome.kind \in ParseFailureKinds =>
               \E k \in DOMAIN passes :
                   /\ passes[k] = "repair"
                   /\ k < Len(passes)
                   /\ passes[k + 1] = "parse"
        /\ ~parse_error.raised => "repair" \notin Range(passes)

\* C8: a parse failure reported to the caller carries the parser's error
\* position, a bounded window of the text around that position, a bounded
\* snippet of the response as it was before any repair, and no rows
C8_FailureDiagnostics ==
    (pc = "Returned" /\ outcome.kind \in ParseFailureKinds) =>
        /\ outcome.has_pos
        /\ outcome.pos = JsonLoads(json_str, variant # Backend).pos
        /\ outcome.has_window
        /\ Len(outcome.window) <= 2 * ContextChars
        /\ outcome.window = Around(json_str, outcome.pos, ContextChars)
        /\ Len(outcome.raw_snippet) <= BackendSnippetChars
        /\ \/ outcome.raw_snippet = Take(response, Len(outcome.raw_snippet))
           \/ outcome.raw_snippet = Take(source_text, Len(outcome.raw_snippet))
        /\ outcome.data = <<>>

(***************************************************************************)
(* OllamaLLM.invoke (langchain_ollama.py)                                   *)
(***************************************************************************)
\* for key in ('token', 'text', 'content', 'output', 'response')
TextKeys == <<(<<"token">>), (<<"text">>), (<<"content">>), (<<"output">>), ResponseKey>>

\* key in s for strings: key occurs in s as a substring
Contains(s, key) ==
    \E i \in 1..(Len(s) - Len(key) + 1) : SubSeq(s, i, i + Len(key) - 1) = key

\* o.values() of a dict: one value per key, in the order of first insertion
DictValues(d) ==
    LET firsts == SelectSeq([k \in DOMAIN d.keys |-> k],
                            LAMBDA k : \A m \in 1..(k - 1) : d.keys[m] # d.keys[k])
    IN [j \in DOMAIN firsts |-> DictGet(d, d.keys[firsts[j]])]

RECURSIVE ExtractStrings(_)
RECURSIVE ExtractStringsOf(_, _)
\* extract_strings(o): the strings found in o, depth first
ExtractStrings(o) ==
    IF o.kind = "str" THEN <<o.s>>
    ELSE IF o.kind = "dict" THEN ExtractStringsOf(DictValues(o), 1)
    ELSE IF o.kind = "list" THEN ExtractStringsOf(o.items, 1)
    ELSE <<>>

ExtractStringsOf(items, k) ==
    IF k > Len(items) THEN <<>>
    ELSE ExtractStrings(items[k]) \o ExtractStringsOf(items, k + 1)

\* the key loop on a decoded line: "raises" is the TypeError of key in obj
\* on a number, a boolean or None, or the AttributeError of obj.get on a
\* string or list that contains a key
KeyTestRaises(obj) ==
    \/ obj.kind \notin {"dict", "list", "str"}
    \/ obj.kind = "str" /\ \E k \in DOMAIN TextKeys : Contains(obj.s, TextKeys[k])
    \/ obj.kind = "list" /\ \E k \in DOMAIN TextKeys :
                               \E m \in DOMAIN obj.items : obj.items[m] = JStr(TextKeys[k])

\* what a decoded line appends to text_parts: the first of the text fields
\* that holds a string, else the strings found anywhere in it, joined
PartsOf(obj) ==
    LET hits == IF obj.kind # "dict" THEN <<>>
                ELSE SelectSeq(TextKeys, LAMBDA key :
                         HasKey(obj, key) /\ DictGet(obj, key).kind = "str")
    IN IF hits # <<>> THEN <<DictGet(obj, Head(hits)).s>>
       ELSE IF ExtractStrings(obj) # <<>> THEN <<Concat(ExtractStrings(obj))>>
       ELSE <<>>

RECURSIVE CollectFromText(_, _, _)
\* lines 107-143: the loop over raw_text.splitlines(), at line k
CollectFromText(lines, k, parts) ==
    IF k > Len(lines) THEN [raised |-> FALSE, parts |-> parts]
    ELSE LET line == Strip(lines[k])
             obj == JsonLoads(line, TRUE)
         IN IF line = <<>> THEN CollectFromText(lines, k + 1, parts)
            ELSE IF ~obj.ok THEN CollectFromText(lines, k + 1, Append(parts, line))
            ELSE IF KeyTestRaises(obj.val) THEN [raised |-> TRUE, parts |-> parts]
            ELSE CollectFromText(lines, k + 1, parts \o PartsOf(obj.val))

RECURSIVE CollectFromStream(_, _, _)
\* lines 149-191 and 201-244: the loop over resp.iter_lines(), at line k
CollectFromStream(lines, k, parts) ==
    IF k > Len(lines) THEN parts
    ELSE LET line == Strip(lines[k])
             obj == JsonLoads(line, TRUE)
         IN IF lines[k] = <<>> THEN CollectFromStream(lines, k + 1, parts)
            ELSE IF At(line, 1) = "{" /\ At(line, Len(line)) = "}"
                 THEN IF ~obj.ok
                      THEN CollectFromStream(lines, k + 1, Append(parts, line))
                      ELSE CollectFromStream(lines, k + 1, parts \o PartsOf(obj.val))
            ELSE CollectFromStream(lines, k + 1, Append(parts, line))

\* raw_text = resp.text or '', '' when reading the body raises
RawText == IF http_response.text_ok THEN http_response.text ELSE <<>>

\* what the call-th resp.iter_lines() yields when it does not raise
IterLines(call) ==
    IF http_response.iter_lines[call] = "lines"
    THEN SplitLines(http_response.text, 1)
    ELSE <<>>

\* lines 29-58: _post_generate
PostGenerate ==
    /\ pc = "Calling"
    /\ IF ~http_response.connected
       THEN /\ llm_error' = "OllamaError: Failed to connect to Ollama"
            /\ pc' = "Raised"
       ELSE IF http_response.status_code # 200
       \* resp.json() and resp.text both read the body; what reading it
       \* raises is not caught
       THEN /\ llm_error' = IF http_response.text_ok
                            THEN "OllamaError: Ollama returned status"
                            ELSE "body read error"
            /\ pc' = "Raised"
       ELSE /\ pc' = "Responded"
            /\ UNCHANGED llm_error
    /\ UNCHANGED <<http_response, text_parts, dbVars, fnVars, pipeVars>>

\* lines 93-143: the chunks of the buffered body text
ReadBodyText ==
    /\ pc = "Responded"
    /\ LET c == CollectFromText(SplitLines(RawText, 1), 1, <<>>)
       IN IF c.raised
          THEN /\ llm_error' = "TypeError"
               /\ pc' = "Raised"
               /\ UNCHANGED text_parts
          ELSE /\ text_parts' = c.parts
               /\ pc' = "TextRead"
               /\ UNCHANGED llm_error
    /\ UNCHANGED <<http_response, dbVars, fnVars, pipeVars>>

\* lines 145-197: the line iterator, when the body text gave nothing
StreamWhenEmpty ==
    /\ pc = "TextRead"
    /\ IF text_parts # <<>>
       THEN /\ pc' = "Streamed"
            /\ UNCHANGED <<text_parts, result>>
       ELSE IF http_response.iter_lines[1] = "raises"
       THEN /\ result' = RawText
            /\ pc' = "Returned"
            /\ UNCHANGED text_parts
       ELSE /\ text_parts' = CollectFromStream(IterLines(1), 1, text_parts)
            /\ pc' = "Streamed"
            /\ UNCHANGED result
    /\ UNCHANGED <<http_response, llm_error, text, applied, dbVars, pipeVars>>

\* lines 199-250: the line iterator, once more
StreamAgain ==
    /\ pc = "Streamed"
    /\ IF http_response.iter_lines[2] = "raises"
       THEN IF http_response.text_ok
            THEN /\ result' = http_response.text
                 /\ pc' = "Returned"
                 /\ UNCHANGED <<text_parts, llm_error>>
            ELSE /\ llm_error' = "OllamaError: Failed to read response"
                 /\ pc' = "Raised"
                 /\ UNCHANGED <<text_parts, result>>
       ELSE /\ text_parts' = CollectFromStream(IterLines(2), 1, text_parts)
            /\ pc' = "Collected"
            /\ UNCHANGED <<result, llm_error>>
    /\ UNCHANGED <<http_response, text, applied, dbVars, pipeVars>>

\* lines 252-320: the joined text, the first array in it, or the fallbacks
ReturnText ==
    /\ pc = "Collected"
    /\ LET joined == Strip(Concat(text_parts))
           arr == FindFirstJsonArray(joined)
       IN IF arr.found
          THEN /\ result' = Slice(joined, arr)
               /\ pc' = "Returned"
               /\ UNCHANGED llm_error
          ELSE IF joined # <<>>
          THEN /\ result' = joined
               /\ pc' = "Returned"
               /\ UNCHANGED llm_error
          ELSE IF Strip(RawText) # <<>>
          THEN /\ result' = RawText
               /\ pc' = "Returned"
               /\ UNCHANGED llm_error
          ELSE /\ llm_error' = "OllamaError: Empty response from Ollama"
               /\ pc' = "Raised"
               /\ UNCHANGED result
    /\ UNCHANGED <<http_response, text_parts, text, applied, dbVars, pipeVars>>

\* data_generator.py lines 210-215 and 347-348: generate_data re-raises what
\* invoke raised
WrapLlmError ==
    /\ pc = "Raised"
    /\ error' = [kind |-> "Error generating data", table |-> ""]
    /\ pc' = "Failed"
    /\ UNCHANGED <<impl, tables, topoVars, warnings, primary_keys, idx, rows,
                   generated_tables, db_result, notDb>>

(***************************************************************************)
(* Specification of OllamaLLM.invoke on bodies of a few lines               *)
(***************************************************************************)
MaxBodyLines == 2

\* the text fragments streamed lines carry
Fragments == {<<"a">>, <<" ", "a">>, <<>>, <<"[", "1", ",">>, <<"1", "]">>}

\* the lines of a body: blank, plain text, a JSON number, objects without
\* any string, an object with a string under another key, streamed fragments
BodyLineKinds ==
    {<<" ">>,
     <<"a">>,
     <<"1">>,
     <<"{", QUOTE, "a", QUOTE, ":", "1", "}">>,
     <<"{", QUOTE, "response", QUOTE, ":", "1", "}">>,
     <<"{", QUOTE, "a", QUOTE, ":", QUOTE, "a", QUOTE, "}">>}
    \cup {StreamLine(piece) : piece \in Fragments}

IterBehaviours == {"lines", "nothing", "raises"}

\* a refused connection, an error status, or a 200 whose body may or may not
\* be readable as text and through the line iterator
HttpResponses ==
    {[NoResponse EXCEPT !.iter_lines = <<"nothing", "nothing">>],
     [NoResponse EXCEPT !.connected = TRUE, !.status_code = 500,
                        !.iter_lines = <<"nothing", "nothing">>],
     [NoResponse EXCEPT !.connected = TRUE, !.status_code = 500, !.text_ok = TRUE,
                        !.text = <<"a">>, !.iter_lines = <<"nothing", "nothing">>]}
    \cup {[connected |-> TRUE, status_code |-> 200, text_ok |-> ok,
           text |-> JoinLines(ls), iter_lines |-> <<first, second>>] :
             ok \in BOOLEAN, ls \in SeqsUpTo(BodyLineKinds, MaxBodyLines),
             first \in IterBehaviours, second \in IterBehaviours}

InitInvoke ==
    /\ pc = "Calling"
    /\ http_response \in HttpResponses
    /\ text_parts = <<>>
    /\ llm_error = ""
    /\ DbIdle
    /\ text = <<>>
    /\ applied = ""
    /\ result = <<>>
    /\ variant = ""
    /\ records_asked = 0
    /\ response = <<>>
    /\ source_text = <<>>
    /\ json_str = <<>>
    /\ passes = <<>>
    /\ parse_error = NoParseError
    /\ outcome = NoOutcome

NextInvoke ==
    \/ PostGenerate
    \/ ReadBodyText
    \/ StreamWhenEmpty
    \/ StreamAgain
    \/ ReturnText
    \/ WrapLlmError

SpecInvoke == InitInvoke /\ [][NextInvoke]_vars

(***************************************************************************)
(* Claims about OllamaLLM.invoke                                            *)
(***************************************************************************)
\* the call failed: no connection, an error status, or a body without text
CallFailed ==
    \/ ~http_response.connected
    \/ http_response.status_code # 200
    \/ IsBlank(http_response.text)

OllamaErrors ==
    {"OllamaError: Failed to connect to Ollama", "OllamaError: Ollama returned status",
     "OllamaError: Failed to read response", "OllamaError: Empty response from Ollama"}

\* C21: invoke never returns an empty string; when the call failed it raises
\* an OllamaError with endpoint or status context, which generate_data turns
\* into a failure
C21_FailureNeverEmptyString ==
    /\ pc = "Returned" => result # <<>>
    /\ (CallFailed /\ pc \in {"Returned", "Raised", "Failed"}) =>
          /\ pc # "Returned"
          /\ llm_error \in OllamaErrors
    /\ pc = "Failed" => error.kind = "Error generating data"

\* the body is made of streamed lines, each carrying one text fragment
NdjsonBody ==
    /\ http_response.connected
    /\ http_response.status_code = 200
    /\ http_response.text_ok
    /\ http_response.text # <<>>
    /\ \A line \in Range(SplitLines(http_response.text, 1)) :
          \E piece \in Fragments : line = StreamLine(piece)

\* the fragments of the body joined in line order
JoinedFragments ==
    LET lines == SplitLines(http_response.text, 1)
    IN Concat([k \in DOMAIN lines |-> PayloadOf(lines[k])])

\* C24: for a body of NDJSON lines each carrying one text fragment, whose
\* concatenation holds text but no balanced array, invoke returns the
\* fragments joined in line order, each contributing exactly once (surrounding
\* whitespace aside), also when the line iterator exposes the lines of the
\* buffered body text again
C24_FragmentsOnce ==
    (/\ pc = "Returned"
     /\ NdjsonBody
     /\ Strip(JoinedFragments) # <<>>
     /\ ~FindFirstJsonArray(Strip(JoinedFragments)).found
     /\ "raises" \notin Range(http_response.iter_lines))
        => Strip(result) = Strip(JoinedFragments)

====
